---------------------------- MODULE Spec2Model ----------------------------
(***************************************************************************)
(* Model of the clink specification-resolution and plugin-loading          *)
(* subsystem: the spec loader (clink/loader.py) with its process-wide      *)
(* module cache, the agent / parser factories that call it, the           *)
(* configuration registry (clink/registry.py), and the response parsers    *)
(* of cursor-agent and opencode (clink/parsers).                           *)
(*                                                                         *)
(* Python strings are sequences of one-character strings, so strip(),      *)
(* lower(), startswith(), rsplit() and the path operations are computed    *)
(* on the characters, as the code computes them.                           *)
(***************************************************************************)
EXTENDS Integers, Sequences, FiniteSets, TLC

VARIABLES
    sysModules,   \* sys.modules restricted to the clink_custom_* names: module name -> module object
    execCount,    \* per source file: how many times its top-level code has been executed
    pathHash,     \* hash(str(path.resolve())) & 0xFFFFFFFF of this process, per resolved path
    last,         \* the last call made to the loader / a factory, with its outcome
    clients,      \* ClinkRegistry._clients: lowercased name -> resolved client
    manifests,    \* the manifest files on disk: path -> content
    configEnv,    \* the value of the environment variable CLI_CLIENTS_CONFIG_PATH
    regLast,      \* the last registry operation and its outcome
    parse,        \* the output of a CLI invocation and what a response parser made of it
    threads       \* the threads inside _import_module_from_path, and the modules run to their end

vars == <<sysModules, execCount, pathHash, last, clients, manifests, configEnv, regLast,
          parse, threads>>

-----------------------------------------------------------------------------
(* Bounds of the model *)

\* how many times one file's code may be executed in a run
MaxExec == 2

\* how many lines the stdout of a CLI invocation may have
MaxLines == 3
\* how many threads load plugin modules at the same time
MaxThreads == 2
\* how many manifest files there may be on disk at a time
MaxManifests == 2
\* registry keys up to this length are tried in every letter casing
MaxCasingLen == 3

-----------------------------------------------------------------------------
(* Python str operations, on sequences of characters *)

Uppers == <<"A","B","C","D","E","F","G","H","I","J","K","L","M",
            "N","O","P","Q","R","S","T","U","V","W","X","Y","Z">>
Lowers == <<"a","b","c","d","e","f","g","h","i","j","k","l","m",
            "n","o","p","q","r","s","t","u","v","w","x","y","z">>

\* the characters str.strip() removes
Whitespace == {" ", "\t", "\n"}

LowerChar(c) ==
    IF \E i \in 1..26 : Uppers[i] = c
    THEN Lowers[CHOOSE i \in 1..26 : Uppers[i] = c]
    ELSE c

UpperChar(c) ==
    IF \E i \in 1..26 : Lowers[i] = c
    THEN Uppers[CHOOSE i \in 1..26 : Lowers[i] = c]
    ELSE c

\* str.upper()
Upper(s) == [i \in 1..Len(s) |-> UpperChar(s[i])]

\* str.lower()
Lower(s) == [i \in 1..Len(s) |-> LowerChar(s[i])]

\* str.strip()
Strip(s) ==
    LET keep == {i \in 1..Len(s) : s[i] \notin Whitespace}
    IN  IF keep = {} THEN <<>>
        ELSE LET lo == CHOOSE i \in keep : \A j \in keep : i <= j
                 hi == CHOOSE i \in keep : \A j \in keep : j <= i
             IN  SubSeq(s, lo, hi)

\* str.startswith(p)
StartsWith(s, p) == Len(s) >= Len(p) /\ SubSeq(s, 1, Len(p)) = p

\* c in s
Contains(s, c) == \E i \in 1..Len(s) : s[i] = c

\* index of the last occurrence of c in s, 0 when there is none (str.rfind + 1)
RFind(s, c) ==
    IF Contains(s, c)
    THEN CHOOSE i \in 1..Len(s) : s[i] = c /\ \A j \in (i+1)..Len(s) : s[j] # c
    ELSE 0

\* s.rsplit(c, 1) for an s that contains c: <<before the last c, after it>>
RSplit1(s, c) ==
    LET i == RFind(s, c)
    IN  <<SubSeq(s, 1, i - 1), SubSeq(s, i + 1, Len(s))>>

\* code-point order of the characters the model uses (ASCII)
CharOrder == <<"\t", "\n", " ", ".", "/", ":", "A","B","C","D","E","F","G","H","I","J","K","L","M",
               "N","O","P","Q","R","S","T","U","V","W","X","Y","Z", "\\", "_",
               "a","b","c","d","e","f","g","h","i","j","k","l","m",
               "n","o","p","q","r","s","t","u","v","w","x","y","z", "~">>

Ord(c) == CHOOSE i \in 1..Len(CharOrder) : CharOrder[i] = c

\* a < b for Python strings
RECURSIVE StrLess(_, _)
StrLess(a, b) ==
    IF b = <<>> THEN FALSE
    ELSE IF a = <<>> THEN TRUE
    ELSE IF a[1] # b[1] THEN Ord(a[1]) < Ord(b[1])
    ELSE StrLess(Tail(a), Tail(b))

\* sorted(S) for a set of strings
RECURSIVE Sorted(_)
Sorted(S) ==
    IF S = {} THEN <<>>
    ELSE LET m == CHOOSE x \in S : \A y \in S \ {x} : StrLess(x, y)
         IN  <<m>> \o Sorted(S \ {m})

-----------------------------------------------------------------------------
(* The filesystem the loader looks at, and pathlib on it *)

\* None for a str | None or Path | None argument
None == <<"<None>">>

S_builtin == <<"b","u","i","l","t","i","n",":">>

\* /d/m.py: a plugin source file
P_dm == <<"/","d","/","m",".","p","y">>
\* /d/l.py: a symbolic link to /d/m.py
P_dl == <<"/","d","/","l",".","p","y">>
\* /e/m.py: another plugin source file with the same file name
P_em == <<"/","e","/","m",".","p","y">>
\* /d/t.txt: a regular file that is no Python source
P_dt == <<"/","d","/","t",".","t","x","t">>
\* /d/n.py: does not exist
P_dn == <<"/","d","/","n",".","p","y">>
\* /d and /e: directories
P_d == <<"/","d">>
P_e == <<"/","e">>
\* m.py, relative
P_m == <<"m",".","p","y">>
\* ~/m.py
P_home_m == <<"~","/","m",".","p","y">>

\* the current working directory and the home directory of the process
Cwd == P_d
Home == P_e

\* the symbolic links of the filesystem: link -> target
SymlinkTarget(p) == IF p = P_dl THEN P_dm ELSE p

\* what lies at a path without symbolic links
FileKind(p) ==
    IF p \in {P_dm, P_em, P_dt} THEN "file"
    ELSE IF p \in {P_d, P_e} THEN "dir"
    ELSE "none"

\* Path.is_absolute()
IsAbsolute(p) == Len(p) > 0 /\ p[1] = "/"

\* Path.expanduser(): a leading ~ component becomes the home directory
ExpandUser(p) ==
    IF Len(p) > 0 /\ p[1] = "~" /\ (Len(p) = 1 \/ p[2] = "/")
    THEN Home \o SubSeq(p, 2, Len(p))
    ELSE p

\* base / p for a relative p
JoinPath(base, p) == base \o <<"/">> \o p

\* Path.resolve() of an absolute path: symbolic links are followed
\* (the paths of the model hold no '.', '..' or empty components)
Resolve(p) == SymlinkTarget(p)

\* Path.resolve() of any path: a relative one is taken from the working directory
ResolveAny(p) == IF IsAbsolute(p) THEN Resolve(p) ELSE Resolve(JoinPath(Cwd, p))

\* Path.exists() and Path.is_file(): both follow symbolic links
Exists(p) == FileKind(ResolveAny(p)) # "none"
IsFile(p) == FileKind(ResolveAny(p)) = "file"

\* Path.name: the final component
PathName(p) == SubSeq(p, RFind(p, "/") + 1, Len(p))

\* Path.suffix: from the last dot of the name, unless the dot leads or ends the name
Suffix(p) ==
    LET n == PathName(p)
        i == RFind(n, ".")
    IN  IF 1 < i /\ i < Len(n) THEN SubSeq(n, i, Len(n)) ELSE <<>>

\* Path.stem: the name without its suffix
Stem(p) ==
    LET n == PathName(p)
        i == RFind(n, ".")
    IN  IF 1 < i /\ i < Len(n) THEN SubSeq(n, 1, i - 1) ELSE n

\* the resolved paths of the files whose path can reach the import
SourceFiles == {P_dm, P_em}

NoFile == <<>>

\* the values hash(...) & 0xFFFFFFFF takes in the model: two, so that the hashes
\* of the two source files are either distinct or collide
HashValues == {0, 1}

-----------------------------------------------------------------------------
(* Classes and the contents of the plugin modules *)

\* a Python object as the loader sees it: whether it is a class, the module
\* object that defined it (file and execution number) and its ancestors
Obj(name, file, gen, isClass, mro) ==
    [name |-> name, file |-> file, gen |-> gen, isClass |-> isClass, mro |-> mro]

NoClass == Obj("", NoFile, 0, FALSE, {})

object == Obj("object", NoFile, 0, TRUE, {"object"})
BaseParser == Obj("BaseParser", NoFile, 0, TRUE, {"BaseParser", "object"})
BaseCLIAgent == Obj("BaseCLIAgent", NoFile, 0, TRUE, {"BaseCLIAgent", "object"})
GeminiAgent == Obj("GeminiAgent", NoFile, 0, TRUE, {"GeminiAgent", "BaseCLIAgent", "object"})
CodexAgent == Obj("CodexAgent", NoFile, 0, TRUE, {"CodexAgent", "BaseCLIAgent", "object"})
ClaudeAgent == Obj("ClaudeAgent", NoFile, 0, TRUE, {"ClaudeAgent", "BaseCLIAgent", "object"})
GeminiJSONParser == Obj("GeminiJSONParser", NoFile, 0, TRUE, {"GeminiJSONParser", "BaseParser", "object"})
CodexJSONLParser == Obj("CodexJSONLParser", NoFile, 0, TRUE, {"CodexJSONLParser", "BaseParser", "object"})
ClaudeJSONParser == Obj("ClaudeJSONParser", NoFile, 0, TRUE, {"ClaudeJSONParser", "BaseParser", "object"})

\* isinstance(obj, type)
IsClass(obj) == obj.isClass

\* issubclass(cls, base)
IsSubclass(cls, base) == base.name \in cls.mro

\* a loaded module object: the file it was executed from and which execution made it
Module(file, gen) == [file |-> file, gen |-> gen]

NoModule == Module(NoFile, 0)

\* vars(module).items() of a module executed from `file`, in definition order:
\*   /d/m.py   from clink.parsers.base import BaseParser as B
\*             class P(B), class A(BaseCLIAgent), class Q, def f
\*   /e/m.py   class P(BaseParser), class R(BaseParser)
ModuleVars(m) ==
    IF m.file = P_dm THEN
        << <<<<"B">>, BaseParser>>,
           <<<<"P">>, Obj("P", m.file, m.gen, TRUE, {"P", "BaseParser", "object"})>>,
           <<<<"A">>, Obj("A", m.file, m.gen, TRUE, {"A", "BaseCLIAgent", "object"})>>,
           <<<<"Q">>, Obj("Q", m.file, m.gen, TRUE, {"Q", "object"})>>,
           <<<<"f">>, Obj("f", m.file, m.gen, FALSE, {})>> >>
    ELSE IF m.file = P_em THEN
        << <<<<"P">>, Obj("P", m.file, m.gen, TRUE, {"P", "BaseParser", "object"})>>,
           <<<<"R">>, Obj("R", m.file, m.gen, TRUE, {"R", "BaseParser", "object"})>> >>
    ELSE <<>>

\* hasattr(module, name)
HasAttr(m, name) == \E i \in 1..Len(ModuleVars(m)) : ModuleVars(m)[i][1] = name

\* getattr(module, name)
GetAttr(m, name) ==
    ModuleVars(m)[CHOOSE i \in 1..Len(ModuleVars(m)) : ModuleVars(m)[i][1] = name][2]

-----------------------------------------------------------------------------
(* clink/loader.py *)

\* what a call of the loader gives back: a class, or LoaderError with the kind of
\* its message and, when the message enumerates names, the names
Returned(cls) ==
    [tag |-> "ok", cls |-> cls, kind |-> "", lists |-> FALSE, avail |-> <<>>]
LoaderError(kind) ==
    [tag |-> "LoaderError", cls |-> NoClass, kind |-> kind, lists |-> FALSE, avail |-> <<>>]
LoaderErrorListing(kind, names) ==
    [tag |-> "LoaderError", cls |-> NoClass, kind |-> kind, lists |-> TRUE, avail |-> names]

\* the outcome of a call together with its effects: the module cache after it,
\* the file whose code it executed (NoFile: none), whether it found the module
\* cached, the path it looked up in the filesystem (NoFile: none) and the module
\* object the import gave it (NoModule: none)
Outcome(res, mods, ran, hit, stat, module) ==
    [res |-> res, mods |-> mods, ran |-> ran, hit |-> hit, stat |-> stat, module |-> module]

\* sys.modules[name] = module, and sys.modules.pop(name, None)
PutModule(mods, name, module) ==
    [k \in DOMAIN mods \cup {name} |-> IF k = name THEN module ELSE mods[k]]
PopModule(mods, name) == [k \in DOMAIN mods \ {name} |-> mods[k]]

\* the name under which a path's module is cached: the stem of the path as given
\* and the masked hash of the resolved path
ModuleName(path) == <<Stem(path), pathHash[ResolveAny(path)]>>

\* importlib.util.spec_from_file_location finds a source loader only for a
\* location ending in ".py"
ImportSpecAvailable(path) == Suffix(path) = <<".","p","y">>

\* a variant that leaves the entry in the cache when the module's code raises
ImportModuleFromPath_NoCleanup(path, mods, raises) ==
    LET module_name == ModuleName(path)
        file == ResolveAny(path)
        module == Module(file, execCount[file] + 1)
        inserted == PutModule(mods, module_name, module)
    IN  IF module_name \in DOMAIN mods
        THEN [module |-> mods[module_name], err |-> "", mods |-> mods, ran |-> NoFile, hit |-> TRUE]
        ELSE IF ~ImportSpecAvailable(path)
        THEN [module |-> module, err |-> "NoImportSpec", mods |-> mods, ran |-> NoFile, hit |-> FALSE]
        ELSE IF raises
        THEN [module |-> module, err |-> "ExecError", mods |-> inserted, ran |-> file, hit |-> FALSE]
        ELSE [module |-> module, err |-> "", mods |-> inserted, ran |-> file, hit |-> FALSE]

ImportModuleFromPath(path, mods, raises) ==
    LET module_name == ModuleName(path)
        file == ResolveAny(path)
        module == Module(file, execCount[file] + 1)
        inserted == PutModule(mods, module_name, module)
    IN  IF module_name \in DOMAIN mods
        THEN [module |-> mods[module_name], err |-> "", mods |-> mods, ran |-> NoFile, hit |-> TRUE]
        ELSE IF ~ImportSpecAvailable(path)
        THEN [module |-> module, err |-> "NoImportSpec", mods |-> mods, ran |-> NoFile, hit |-> FALSE]
        ELSE IF raises
        THEN [module |-> module, err |-> "ExecError", mods |-> PopModule(inserted, module_name),
              ran |-> file, hit |-> FALSE]
        ELSE [module |-> module, err |-> "", mods |-> inserted, ran |-> file, hit |-> FALSE]

\* a variant that lets base_class itself into the hint
AvailableClasses_WithBase(module, base_class) ==
    LET keep(e) == IsClass(e[2]) /\ IsSubclass(e[2], base_class)
        kept == SelectSeq(ModuleVars(module), keep)
    IN  [i \in 1..Len(kept) |-> kept[i][1]]

\* the names of the classes of a module that inherit from base_class, for the hint
AvailableClasses(module, base_class) ==
    LET keep(e) == IsClass(e[2]) /\ IsSubclass(e[2], base_class) /\ e[2] # base_class
        kept == SelectSeq(ModuleVars(module), keep)
    IN  [i \in 1..Len(kept) |-> kept[i][1]]

\* a variant that does not validate the inheritance
ValidateClass_NoInheritance(cls, base_class) ==
    IF ~IsClass(cls) THEN LoaderError("NotAClass") ELSE Returned(cls)

\* the validation of the attribute found under the class name
ValidateClass(cls, base_class) ==
    IF ~IsClass(cls) THEN LoaderError("NotAClass")
    ELSE IF ~IsSubclass(cls, base_class) THEN LoaderError("WrongBase")
    ELSE Returned(cls)

\* the path a path spec names, as _load_from_path hands it to the import
SpecPath(path_str, config_base_dir) ==
    LET path == ExpandUser(path_str)
    IN  IF IsAbsolute(path) THEN path
        ELSE IF config_base_dir # None THEN Resolve(JoinPath(config_base_dir, path))
        ELSE ResolveAny(path)

\* a variant that splits the spec at its first colon
LoadFromPath_FirstColon(spec, base_class, config_base_dir, mods, raises) ==
    LET colons == {i \in 1..Len(spec) : spec[i] = ":"}
        first == CHOOSE i \in colons : \A j \in colons : i <= j
        path_str == SubSeq(spec, 1, first - 1)
        class_name == Strip(SubSeq(spec, first + 1, Len(spec)))
        path == SpecPath(path_str, config_base_dir)
        imp == ImportModuleFromPath(path, mods, raises)
        malformed(kind) == Outcome(LoaderError(kind), mods, NoFile, FALSE, NoFile, NoModule)
        invalid(kind) == Outcome(LoaderError(kind), mods, NoFile, FALSE, path, NoModule)
        after(res) == Outcome(res, imp.mods, imp.ran, imp.hit, path,
                              IF imp.err = "" THEN imp.module ELSE NoModule)
    IN  IF ~Contains(spec, ":") THEN malformed("InvalidPathSpec")
        ELSE IF class_name = <<>> THEN malformed("MissingClassName")
        ELSE IF path_str = <<>> THEN malformed("MissingPath")
        ELSE IF ~Exists(path) THEN invalid("FileNotFound")
        ELSE IF ~IsFile(path) THEN invalid("NotAFile")
        ELSE IF Lower(Suffix(path)) # <<".","p","y">> THEN invalid("NotPyFile")
        ELSE IF imp.err # "" THEN after(LoaderError(imp.err))
        ELSE IF ~HasAttr(imp.module, class_name)
        THEN LET available_classes == AvailableClasses(imp.module, base_class)
             IN  after(IF available_classes # <<>>
                       THEN LoaderErrorListing("ClassNotFound", available_classes)
                       ELSE LoaderError("ClassNotFound"))
        ELSE after(ValidateClass(GetAttr(imp.module, class_name), base_class))

\* a variant that checks the extension before it checks that the path is a file
LoadFromPath_SuffixFirst(spec, base_class, config_base_dir, mods, raises) ==
    LET parts == RSplit1(spec, ":")
        path_str == parts[1]
        class_name == Strip(parts[2])
        path == SpecPath(path_str, config_base_dir)
        imp == ImportModuleFromPath(path, mods, raises)
        malformed(kind) == Outcome(LoaderError(kind), mods, NoFile, FALSE, NoFile, NoModule)
        invalid(kind) == Outcome(LoaderError(kind), mods, NoFile, FALSE, path, NoModule)
        after(res) == Outcome(res, imp.mods, imp.ran, imp.hit, path,
                              IF imp.err = "" THEN imp.module ELSE NoModule)
    IN  IF ~Contains(spec, ":") THEN malformed("InvalidPathSpec")
        ELSE IF class_name = <<>> THEN malformed("MissingClassName")
        ELSE IF path_str = <<>> THEN malformed("MissingPath")
        ELSE IF ~Exists(path) THEN invalid("FileNotFound")
        ELSE IF Lower(Suffix(path)) # <<".","p","y">> THEN invalid("NotPyFile")
        ELSE IF ~IsFile(path) THEN invalid("NotAFile")
        ELSE IF imp.err # "" THEN after(LoaderError(imp.err))
        ELSE IF ~HasAttr(imp.module, class_name)
        THEN LET available_classes == AvailableClasses(imp.module, base_class)
             IN  after(IF available_classes # <<>>
                       THEN LoaderErrorListing("ClassNotFound", available_classes)
                       ELSE LoaderError("ClassNotFound"))
        ELSE after(ValidateClass(GetAttr(imp.module, class_name), base_class))

LoadFromPath(spec, base_class, config_base_dir, mods, raises) ==
    LET parts == RSplit1(spec, ":")
        path_str == parts[1]
        class_name == Strip(parts[2])
        path == SpecPath(path_str, config_base_dir)
        imp == ImportModuleFromPath(path, mods, raises)
        malformed(kind) == Outcome(LoaderError(kind), mods, NoFile, FALSE, NoFile, NoModule)
        invalid(kind) == Outcome(LoaderError(kind), mods, NoFile, FALSE, path, NoModule)
        after(res) == Outcome(res, imp.mods, imp.ran, imp.hit, path,
                              IF imp.err = "" THEN imp.module ELSE NoModule)
    IN  IF ~Contains(spec, ":") THEN malformed("InvalidPathSpec")
        ELSE IF class_name = <<>> THEN malformed("MissingClassName")
        ELSE IF path_str = <<>> THEN malformed("MissingPath")
        ELSE IF ~Exists(path) THEN invalid("FileNotFound")
        ELSE IF ~IsFile(path) THEN invalid("NotAFile")
        ELSE IF Lower(Suffix(path)) # <<".","p","y">> THEN invalid("NotPyFile")
        ELSE IF imp.err # "" THEN after(LoaderError(imp.err))
        ELSE IF ~HasAttr(imp.module, class_name)
        THEN LET available_classes == AvailableClasses(imp.module, base_class)
             IN  after(IF available_classes # <<>>
                       THEN LoaderErrorListing("ClassNotFound", available_classes)
                       ELSE LoaderError("ClassNotFound"))
        ELSE after(ValidateClass(GetAttr(imp.module, class_name), base_class))

\* a variant that looks the name up without lowering it
LoadBuiltin_NoLower(name, registry) ==
    LET normalized == Strip(name)
    IN  IF normalized = <<>> THEN LoaderError("EmptyBuiltinName")
        ELSE IF normalized \notin DOMAIN registry
        THEN LoaderErrorListing("UnknownBuiltin", Sorted(DOMAIN registry))
        ELSE Returned(registry[normalized])

LoadBuiltin(name, registry) ==
    LET normalized == Lower(Strip(name))
    IN  IF normalized = <<>> THEN LoaderError("EmptyBuiltinName")
        ELSE IF normalized \notin DOMAIN registry
        THEN LoaderErrorListing("UnknownBuiltin", Sorted(DOMAIN registry))
        ELSE Returned(registry[normalized])

\* a variant without the legacy lookup of bare names
LoadClassFromSpec_NoLegacy(spec0, base_class, builtin_registry, config_base_dir, mods, raises) ==
    LET spec == Strip(spec0)
        pure(res) == Outcome(res, mods, NoFile, FALSE, NoFile, NoModule)
    IN  IF spec0 = None \/ spec0 = <<>> THEN pure(LoaderError("InvalidSpec"))
        ELSE IF StartsWith(spec, S_builtin)
        THEN pure(LoadBuiltin(SubSeq(spec, Len(S_builtin) + 1, Len(spec)), builtin_registry))
        ELSE IF Contains(spec, ":")
        THEN LoadFromPath(spec, base_class, config_base_dir, mods, raises)
        ELSE IF Contains(spec, "/") \/ Contains(spec, "\\")
        THEN pure(LoaderError("PathNeedsClass"))
        ELSE pure(LoaderErrorListing("UnknownSpec", Sorted(DOMAIN builtin_registry)))

\* a variant that does not tell path-like bare specs from unknown names
LoadClassFromSpec_NoSeparatorCheck(spec0, base_class, builtin_registry, config_base_dir, mods, raises) ==
    LET spec == Strip(spec0)
        pure(res) == Outcome(res, mods, NoFile, FALSE, NoFile, NoModule)
    IN  IF spec0 = None \/ spec0 = <<>> THEN pure(LoaderError("InvalidSpec"))
        ELSE IF StartsWith(spec, S_builtin)
        THEN pure(LoadBuiltin(SubSeq(spec, Len(S_builtin) + 1, Len(spec)), builtin_registry))
        ELSE IF Contains(spec, ":")
        THEN LoadFromPath(spec, base_class, config_base_dir, mods, raises)
        ELSE IF spec \in DOMAIN builtin_registry THEN pure(Returned(builtin_registry[spec]))
        ELSE pure(LoaderErrorListing("UnknownSpec", Sorted(DOMAIN builtin_registry)))

LoadClassFromSpec(spec0, base_class, builtin_registry, config_base_dir, mods, raises) ==
    LET spec == Strip(spec0)
        pure(res) == Outcome(res, mods, NoFile, FALSE, NoFile, NoModule)
    IN  IF spec0 = None \/ spec0 = <<>> THEN pure(LoaderError("InvalidSpec"))
        ELSE IF StartsWith(spec, S_builtin)
        THEN pure(LoadBuiltin(SubSeq(spec, Len(S_builtin) + 1, Len(spec)), builtin_registry))
        ELSE IF Contains(spec, ":")
        THEN LoadFromPath(spec, base_class, config_base_dir, mods, raises)
        ELSE IF spec \in DOMAIN builtin_registry THEN pure(Returned(builtin_registry[spec]))
        ELSE IF Contains(spec, "/") \/ Contains(spec, "\\")
        THEN pure(LoaderError("PathNeedsClass"))
        ELSE pure(LoaderErrorListing("UnknownSpec", Sorted(DOMAIN builtin_registry)))

\* a variant that recognizes a bare name only in the casing of the registry
NormalizeSpec_ExactCase(spec0, builtin_registry) ==
    LET spec == Strip(spec0)
    IN  IF spec0 = None \/ spec0 = <<>> THEN spec0
        ELSE IF Contains(spec, ":") \/ Contains(spec, "/") \/ Contains(spec, "\\") THEN spec
        ELSE IF spec \in DOMAIN builtin_registry THEN S_builtin \o spec
        ELSE spec

NormalizeSpec(spec0, builtin_registry) ==
    LET spec == Strip(spec0)
    IN  IF spec0 = None \/ spec0 = <<>> THEN spec0
        ELSE IF Contains(spec, ":") \/ Contains(spec, "/") \/ Contains(spec, "\\") THEN spec
        ELSE IF Lower(spec) \in DOMAIN builtin_registry THEN S_builtin \o spec
        ELSE spec

-----------------------------------------------------------------------------
(* The builtin registries, and the registries the tests pass to the loader *)

S_gemini == <<"g","e","m","i","n","i">>
S_codex == <<"c","o","d","e","x">>
S_claude == <<"c","l","a","u","d","e">>
S_gemini_json == <<"g","e","m","i","n","i","_","j","s","o","n">>
S_codex_jsonl == <<"c","o","d","e","x","_","j","s","o","n","l">>
S_claude_json == <<"c","l","a","u","d","e","_","j","s","o","n">>
S_foo == <<"f","o","o">>
S_bar == <<"b","a","r">>

\* a dict from its items
Dict(items) == [k \in {e[1] : e \in items} |-> (CHOOSE e \in items : e[1] = k)[2]]

\* clink/agents/__init__.py: _AGENTS
AGENTS == Dict({<<S_gemini, GeminiAgent>>, <<S_codex, CodexAgent>>, <<S_claude, ClaudeAgent>>})

\* clink/parsers/__init__.py: _PARSER_CLASSES
PARSER_CLASSES ==
    Dict({<<S_codex_jsonl, CodexJSONLParser>>, <<S_gemini_json, GeminiJSONParser>>,
          <<S_claude_json, ClaudeJSONParser>>})

\* the registries of tests/test_clink_loader.py: {}, {"foo": object, "bar": object},
\* and one of parser classes under the same keys
EmptyRegistry == Dict({})
ObjectRegistry == Dict({<<S_foo, object>>, <<S_bar, object>>})
FooRegistry == Dict({<<S_foo, GeminiJSONParser>>, <<S_bar, CodexJSONLParser>>})

-----------------------------------------------------------------------------
(* The calls *)

NoClient == [runner |-> None, config_base_dir |-> None]

\* the record of a call: the operation, its arguments, the spec handed to the
\* loader (`spec`, `called`), what the loader gave back and did (`load`, `hit`,
\* `ran`, `stat`, `module`) and what the operation gave back (`res`)
Call(op, arg, client, base, reg, dir, spec, called, out, res) ==
    [op |-> op, arg |-> arg, client |-> client, base |-> base.name, reg |-> reg, dir |-> dir,
     spec |-> spec, called |-> called, load |-> out.res, hit |-> out.hit, ran |-> out.ran,
     stat |-> out.stat, module |-> out.module, res |-> res]

NoResult == [tag |-> "none", cls |-> NoClass, kind |-> "", lists |-> FALSE, avail |-> <<>>]
NotCalled(mods) == Outcome(NoResult, mods, NoFile, FALSE, NoFile, NoModule)

NoCall == Call("none", None, NoClient, object, "EmptyRegistry", None, None, FALSE,
               NotCalled(<<>>), NoResult)

\* the effects of a loader outcome on the process: the cache, and the execution count
\* of the file whose code ran
Effects(out) ==
    /\ out.ran # NoFile => execCount[out.ran] < MaxExec
    /\ sysModules' = out.mods
    /\ execCount' = [f \in SourceFiles |->
                        IF f = out.ran THEN execCount[f] + 1 ELSE execCount[f]]

\* the registries by name
Registry(reg) ==
    CASE reg = "AGENTS" -> AGENTS
      [] reg = "PARSER_CLASSES" -> PARSER_CLASSES
      [] reg = "ObjectRegistry" -> ObjectRegistry
      [] reg = "FooRegistry" -> FooRegistry
      [] OTHER -> EmptyRegistry

\* the outcomes a call of the loader can have in the current state: the code of the
\* file it executes, if it executes one, either completes or raises
Outcomes(spec, base_class, builtin_registry, dir) ==
    LET done == LoadClassFromSpec(spec, base_class, builtin_registry, dir, sysModules, FALSE)
    IN  IF done.ran = NoFile THEN {done}
        ELSE {done, LoadClassFromSpec(spec, base_class, builtin_registry, dir, sysModules, TRUE)}

\* load_class_from_spec(spec, base_class, builtin_registry, config_base_dir=dir)
LoadClass(spec, base_class, reg, dir) ==
    \E out \in Outcomes(spec, base_class, Registry(reg), dir) :
        /\ Effects(out)
        /\ last' = Call("load_class_from_spec", spec, NoClient, base_class, reg, dir,
                        spec, TRUE, out, out.res)
        /\ UNCHANGED <<pathHash, clients, manifests, configEnv, regLast, parse, threads>>

\* normalize_spec(spec, builtin_registry): the string it returns is recorded as
\* the `spec` of the call
Normalize(spec, reg) ==
    /\ last' = Call("normalize_spec", spec, NoClient, object, reg, None,
                    NormalizeSpec(spec, Registry(reg)), FALSE, NotCalled(sysModules), NoResult)
    /\ UNCHANGED <<sysModules, execCount, pathHash, clients, manifests, configEnv, regLast, parse, threads>>

\* an instance of a class
Instance(tag, cls) == [tag |-> tag, cls |-> cls, kind |-> "", lists |-> FALSE, avail |-> <<>>]

\* a variant that lets the loader's error out instead of falling back
CreateAgentFromSpec_Propagates(client, runner_spec, dir) ==
    LET spec == IF runner_spec # None THEN runner_spec ELSE client.runner
        config_base_dir == IF dir = None THEN client.config_base_dir ELSE dir
        normalized == NormalizeSpec(spec, AGENTS)
    IN  IF spec = None
        THEN /\ last' = Call("create_agent_from_spec", runner_spec, client, BaseCLIAgent, "AGENTS",
                             dir, None, FALSE, NotCalled(sysModules),
                             Instance("agent", BaseCLIAgent))
             /\ UNCHANGED <<sysModules, execCount, pathHash, clients, manifests, configEnv, regLast, parse, threads>>
        ELSE \E out \in Outcomes(normalized, BaseCLIAgent, AGENTS, config_base_dir) :
                LET agent == IF out.res.tag = "LoaderError"
                             THEN out.res
                             ELSE Instance("agent", out.res.cls)
                IN  /\ Effects(out)
                    /\ last' = Call("create_agent_from_spec", runner_spec, client, BaseCLIAgent,
                                    "AGENTS", dir, normalized, TRUE, out, agent)
                    /\ UNCHANGED <<pathHash, clients, manifests, configEnv, regLast, parse, threads>>

\* clink/agents/__init__.py: create_agent_from_spec(client, runner_spec, config_base_dir=dir)
CreateAgentFromSpec(client, runner_spec, dir) ==
    LET spec == IF runner_spec # None THEN runner_spec ELSE client.runner
        config_base_dir == IF dir = None THEN client.config_base_dir ELSE dir
        normalized == NormalizeSpec(spec, AGENTS)
    IN  IF spec = None
        THEN /\ last' = Call("create_agent_from_spec", runner_spec, client, BaseCLIAgent, "AGENTS",
                             dir, None, FALSE, NotCalled(sysModules),
                             Instance("agent", BaseCLIAgent))
             /\ UNCHANGED <<sysModules, execCount, pathHash, clients, manifests, configEnv, regLast, parse, threads>>
        ELSE \E out \in Outcomes(normalized, BaseCLIAgent, AGENTS, config_base_dir) :
                LET agent == IF out.res.tag = "LoaderError"
                             THEN Instance("agent", BaseCLIAgent)
                             ELSE Instance("agent", out.res.cls)
                IN  /\ Effects(out)
                    /\ last' = Call("create_agent_from_spec", runner_spec, client, BaseCLIAgent,
                                    "AGENTS", dir, normalized, TRUE, out, agent)
                    /\ UNCHANGED <<pathHash, clients, manifests, configEnv, regLast, parse, threads>>

\* ParserError(message): the message is the loader's, or "Parser spec cannot be empty"
ParserError(e) ==
    [tag |-> "ParserError", cls |-> NoClass, kind |-> e.kind, lists |-> e.lists, avail |-> e.avail]

\* a variant that falls back to a default parser when the loader fails
GetParserFromSpec_Fallback(spec, dir) ==
    LET normalized == NormalizeSpec(spec, PARSER_CLASSES)
    IN  IF spec = None \/ spec = <<>>
        THEN /\ last' = Call("get_parser_from_spec", spec, NoClient, BaseParser, "PARSER_CLASSES",
                             dir, None, FALSE, NotCalled(sysModules),
                             ParserError(LoaderError("CannotBeEmpty")))
             /\ UNCHANGED <<sysModules, execCount, pathHash, clients, manifests, configEnv, regLast, parse, threads>>
        ELSE \E out \in Outcomes(normalized, BaseParser, PARSER_CLASSES, dir) :
                LET res == IF out.res.tag = "LoaderError"
                           THEN Instance("parser", GeminiJSONParser)
                           ELSE Instance("parser", out.res.cls)
                IN  /\ Effects(out)
                    /\ last' = Call("get_parser_from_spec", spec, NoClient, BaseParser,
                                    "PARSER_CLASSES", dir, normalized, TRUE, out, res)
                    /\ UNCHANGED <<pathHash, clients, manifests, configEnv, regLast, parse, threads>>

\* clink/parsers/__init__.py: get_parser_from_spec(spec, config_base_dir=dir)
GetParserFromSpec(spec, dir) ==
    LET normalized == NormalizeSpec(spec, PARSER_CLASSES)
    IN  IF spec = None \/ spec = <<>>
        THEN /\ last' = Call("get_parser_from_spec", spec, NoClient, BaseParser, "PARSER_CLASSES",
                             dir, None, FALSE, NotCalled(sysModules),
                             ParserError(LoaderError("CannotBeEmpty")))
             /\ UNCHANGED <<sysModules, execCount, pathHash, clients, manifests, configEnv, regLast, parse, threads>>
        ELSE \E out \in Outcomes(normalized, BaseParser, PARSER_CLASSES, dir) :
                LET res == IF out.res.tag = "LoaderError"
                           THEN ParserError(out.res)
                           ELSE Instance("parser", out.res.cls)
                IN  /\ Effects(out)
                    /\ last' = Call("get_parser_from_spec", spec, NoClient, BaseParser,
                                    "PARSER_CLASSES", dir, normalized, TRUE, out, res)
                    /\ UNCHANGED <<pathHash, clients, manifests, configEnv, regLast, parse, threads>>

-----------------------------------------------------------------------------
(* The configuration registry: clink/registry.py *)

\* clink/constants.py: the built-in configuration directory, the user's one,
\* the project root and the fallback timeout
CONFIG_DIR == P_d
USER_CONFIG_DIR == P_e
PROJECT_ROOT == P_d
DEFAULT_TIMEOUT_SECONDS == 1800

\* the manifest files there can be: /d/a.json, /d/b.json and /e/a.json
F_da == <<"/","d","/","a",".","j","s","o","n">>
F_db == <<"/","d","/","b",".","j","s","o","n">>
F_ea == <<"/","e","/","a",".","j","s","o","n">>
ManifestFiles == {F_da, F_db, F_ea}

\* prompt paths of manifests: t.txt exists under the project root, x.txt nowhere
P_t == <<"t",".","t","x","t">>
P_x == <<"x",".","t","x","t">>

S_json == <<".","j","s","o","n">>

\* a value Python takes as false where a string is expected: None or ""
Falsy(v) == v = None \/ v = <<>>

\* Path.parent
Parent(p) == SubSeq(p, 1, RFind(p, "/") - 1)

\* shlex.split(command) for a command without quotes and escapes: its words
RECURSIVE ShlexSplit(_)
ShlexSplit(command) ==
    LET t == Strip(command)
        ws == {i \in 1..Len(t) : t[i] \in Whitespace}
    IN  IF t = <<>> THEN <<>>
        ELSE IF ws = {} THEN <<t>>
        ELSE LET i == CHOOSE i \in ws : \A j \in ws : i <= j
             IN  <<SubSeq(t, 1, i - 1)>> \o ShlexSplit(SubSeq(t, i + 1, Len(t)))

\* clink/constants.py: CLIInternalDefaults, the fallback executable, args, env,
\* timeout, parser spec, runner spec and default prompt of a built-in CLI
CLIInternalDefaults(executable, parser, additional_args, runner) ==
    [executable |-> executable, parser |-> parser, additional_args |-> additional_args,
     env |-> <<>>, default_role_prompt |-> P_t, timeout_seconds |-> DEFAULT_TIMEOUT_SECONDS,
     runner |-> runner]

\* clink/constants.py: INTERNAL_DEFAULTS, keyed by the lowercase CLI name
INTERNAL_DEFAULTS ==
    Dict({<<S_gemini, CLIInternalDefaults(<<S_gemini>>, S_gemini_json, <<"-o", "json">>, S_gemini)>>,
          <<S_codex, CLIInternalDefaults(<<S_codex>>, S_codex_jsonl, <<"exec">>, S_codex)>>,
          <<S_claude, CLIInternalDefaults(<<S_claude>>, S_claude_json, <<"--print">>, S_claude)>>})

\* clink/models.py: CLIRoleConfig
CLIRoleConfig(name, prompt_path) ==
    [name |-> name, prompt_path |-> prompt_path, role_args |-> <<>>, description |-> None]

\* clink/models.py: CLIClientConfig, the roles in the order of the manifest;
\* timeout_seconds 0 stands for None; model_fields_set holds the keys the manifest
\* gave, here those whose value is not the default of the field
CLIClientConfig(name, command, parser, internal_args, default_role_prompt, roles) ==
    [name |-> name, command |-> command, working_dir |-> None, additional_args |-> <<>>,
     env |-> <<>>, timeout_seconds |-> 0, roles |-> roles, output_to_file |-> None,
     parser |-> parser, internal_args |-> internal_args,
     default_role_prompt |-> default_role_prompt, runner |-> None,
     model_fields_set |->
        {"name"} \cup (IF command # None THEN {"command"} ELSE {})
                 \cup (IF parser # None THEN {"parser"} ELSE {})
                 \cup (IF internal_args # <<>> THEN {"internal_args"} ELSE {})
                 \cup (IF default_role_prompt # None THEN {"default_role_prompt"} ELSE {})
                 \cup (IF roles # <<>> THEN {"roles"} ELSE {})]

\* what resolving gives when it raises
NoResolved == [name |-> <<>>]

Resolved(client) == [ok |-> TRUE, err |-> "", fields |-> {}, client |-> client]
RegistryLoadError(err, fields) == [ok |-> FALSE, err |-> err, fields |-> fields, client |-> NoResolved]

\* ClinkRegistry._resolve_path
ResolvePath(candidate, base_dir) ==
    LET candidate_path == Resolve(JoinPath(base_dir, candidate))
    IN  IF IsAbsolute(candidate) THEN candidate
        ELSE IF Exists(candidate_path) THEN candidate_path
        ELSE Resolve(JoinPath(PROJECT_ROOT, candidate))

\* ClinkRegistry._resolve_optional_path
ResolveOptionalPath(candidate, base_dir) ==
    IF Falsy(candidate) THEN None ELSE ResolvePath(candidate, base_dir)

\* a variant that stops at the first required field that is missing
ValidateCustomCliConfig_FirstOnly(raw) ==
    IF Falsy(raw.command) THEN {"command"}
    ELSE IF Falsy(raw.parser) THEN {"parser"} ELSE {}

\* ClinkRegistry._validate_custom_cli_config: the required fields that are missing
ValidateCustomCliConfig(raw) ==
    (IF Falsy(raw.command) THEN {"command"} ELSE {})
    \cup (IF Falsy(raw.parser) THEN {"parser"} ELSE {})

\* ClinkRegistry._merge_env
MergeEnv(defaults_env, raw_env) ==
    [k \in DOMAIN defaults_env \cup DOMAIN raw_env |->
        IF k \in DOMAIN raw_env THEN raw_env[k] ELSE defaults_env[k]]

\* a variant that takes the roles as the manifest declares them
WithDefaultRole_AsDeclared(roles, default_role_prompt) == roles

\* the roles of a manifest with the default role added or completed
WithDefaultRole(roles, default_role_prompt) ==
    IF \A i \in 1..Len(roles) : roles[i].name # "default"
    THEN Append(roles, CLIRoleConfig("default", default_role_prompt))
    ELSE [i \in 1..Len(roles) |->
            IF roles[i].name = "default" /\ roles[i].prompt_path = None
               /\ ~Falsy(default_role_prompt)
            THEN [roles[i] EXCEPT !.prompt_path = default_role_prompt]
            ELSE roles[i]]

\* the loop of _resolve_roles over the roles from the i-th on: the first role
\* without a prompt, or whose prompt file is missing, raises
RECURSIVE ResolveRolesFrom(_, _, _, _, _)
ResolveRolesFrom(roles, i, default_role_prompt, base_dir, resolved) ==
    IF i > Len(roles) THEN Resolved(resolved)
    ELSE LET prompt_path_str == IF Falsy(roles[i].prompt_path) THEN default_role_prompt
                                ELSE roles[i].prompt_path
             prompt_path == ResolvePath(prompt_path_str, base_dir)
             role == [name |-> roles[i].name, prompt_path |-> prompt_path,
                      role_args |-> roles[i].role_args, description |-> roles[i].description]
         IN  IF Falsy(prompt_path_str) THEN RegistryLoadError("RoleWithoutPrompt", {roles[i].name})
             ELSE IF ~Exists(prompt_path) THEN RegistryLoadError("PromptNotFound", {roles[i].name})
             ELSE ResolveRolesFrom(roles, i + 1, default_role_prompt, base_dir,
                                   [n \in DOMAIN resolved \cup {role.name} |->
                                       IF n = role.name THEN role ELSE resolved[n]])

\* ClinkRegistry._resolve_roles
ResolveRoles(raw, default_role_prompt, source_path) ==
    ResolveRolesFrom(WithDefaultRole(raw.roles, default_role_prompt), 1, default_role_prompt,
                     Parent(source_path), <<>>)

\* a variant that takes the parser of the manifest as it is, without the fallback
\* to the internal defaults and without the check that there is one
ResolveConfig_ManifestParserOnly(raw, source_path) ==
    LET normalized_name == Strip(raw.name)
        key == Lower(normalized_name)
        is_custom_cli == key \notin DOMAIN INTERNAL_DEFAULTS
        internal_defaults == INTERNAL_DEFAULTS[key]
        internal_args == IF is_custom_cli \/ raw.internal_args # <<>>
                         THEN raw.internal_args
                         ELSE internal_defaults.additional_args
        timeout_seconds == IF raw.timeout_seconds # 0 THEN raw.timeout_seconds
                           ELSE IF is_custom_cli THEN DEFAULT_TIMEOUT_SECONDS
                           ELSE internal_defaults.timeout_seconds
        parser_spec == raw.parser
        runner_spec == IF raw.runner = None /\ ~is_custom_cli THEN internal_defaults.runner
                       ELSE raw.runner
        env == MergeEnv(IF is_custom_cli THEN <<>> ELSE internal_defaults.env, raw.env)
        default_role_prompt == IF ~Falsy(raw.default_role_prompt) \/ is_custom_cli
                               THEN raw.default_role_prompt
                               ELSE internal_defaults.default_role_prompt
        roles == ResolveRoles(raw, default_role_prompt, source_path)
    IN  IF Falsy(raw.name) THEN RegistryLoadError("MissingName", {})
        ELSE IF is_custom_cli /\ ValidateCustomCliConfig(raw) # {}
        THEN RegistryLoadError("CustomMissingFields", ValidateCustomCliConfig(raw))
        ELSE IF Falsy(raw.command) THEN RegistryLoadError("MissingCommand", {})
        ELSE IF ~roles.ok THEN roles
        ELSE Resolved([name |-> normalized_name,
                       executable |-> ShlexSplit(raw.command),
                       internal_args |-> internal_args,
                       config_args |-> raw.additional_args,
                       env |-> env,
                       timeout_seconds |-> timeout_seconds,
                       parser |-> parser_spec,
                       runner |-> runner_spec,
                       roles |-> roles.client,
                       output_to_file |-> raw.output_to_file,
                       working_dir |-> ResolveOptionalPath(raw.working_dir, Parent(source_path)),
                       config_source_path |-> source_path])

\* ClinkRegistry._resolve_config (with _resolve_executable)
ResolveConfig(raw, source_path) ==
    LET normalized_name == Strip(raw.name)
        key == Lower(normalized_name)
        is_custom_cli == key \notin DOMAIN INTERNAL_DEFAULTS
        internal_defaults == INTERNAL_DEFAULTS[key]
        internal_args == IF is_custom_cli \/ raw.internal_args # <<>>
                         THEN raw.internal_args
                         ELSE internal_defaults.additional_args
        timeout_seconds == IF raw.timeout_seconds # 0 THEN raw.timeout_seconds
                           ELSE IF is_custom_cli THEN DEFAULT_TIMEOUT_SECONDS
                           ELSE internal_defaults.timeout_seconds
        parser_spec == IF ~Falsy(raw.parser) \/ is_custom_cli THEN raw.parser
                       ELSE internal_defaults.parser
        runner_spec == IF raw.runner = None /\ ~is_custom_cli THEN internal_defaults.runner
                       ELSE raw.runner
        env == MergeEnv(IF is_custom_cli THEN <<>> ELSE internal_defaults.env, raw.env)
        default_role_prompt == IF ~Falsy(raw.default_role_prompt) \/ is_custom_cli
                               THEN raw.default_role_prompt
                               ELSE internal_defaults.default_role_prompt
        roles == ResolveRoles(raw, default_role_prompt, source_path)
    IN  IF Falsy(raw.name) THEN RegistryLoadError("MissingName", {})
        ELSE IF is_custom_cli /\ ValidateCustomCliConfig(raw) # {}
        THEN RegistryLoadError("CustomMissingFields", ValidateCustomCliConfig(raw))
        ELSE IF Falsy(raw.command) THEN RegistryLoadError("MissingCommand", {})
        ELSE IF Falsy(parser_spec) THEN RegistryLoadError("MissingParser", {})
        ELSE IF ~roles.ok THEN roles
        ELSE Resolved([name |-> normalized_name,
                       executable |-> ShlexSplit(raw.command),
                       internal_args |-> internal_args,
                       config_args |-> raw.additional_args,
                       env |-> env,
                       timeout_seconds |-> timeout_seconds,
                       parser |-> parser_spec,
                       runner |-> runner_spec,
                       roles |-> roles.client,
                       output_to_file |-> raw.output_to_file,
                       working_dir |-> ResolveOptionalPath(raw.working_dir, Parent(source_path)),
                       config_source_path |-> source_path])

\* what a manifest file holds: nothing that parses as JSON, empty data, data
\* that is no client configuration, or a client configuration
Manifest(kind, config) == [kind |-> kind, config |-> config]
NoConfig == CLIClientConfig(<<>>, None, None, <<>>, None, <<>>)
Absent == Manifest("absent", NoConfig)
Malformed == Manifest("malformed", NoConfig)
EmptyData == Manifest("empty", NoConfig)
Invalid == Manifest("invalid", NoConfig)

NoManifests == [f \in ManifestFiles |-> Absent]

\* Path.is_file() and Path.is_dir() with the manifest files that are there
IsFileNow(p) == (p \in ManifestFiles /\ manifests[p] # Absent) \/ FileKind(Resolve(p)) = "file"
IsDirNow(p) == FileKind(Resolve(p)) = "dir"

\* sorted(base.glob("*.json")), files only
GlobJson(base) ==
    Sorted({f \in ManifestFiles : manifests[f] # Absent /\ Parent(f) = base /\ Suffix(f) = S_json})

\* the search paths of _iter_config_files
SearchPaths ==
    <<CONFIG_DIR>> \o (IF Falsy(configEnv) THEN <<>> ELSE <<ExpandUser(configEnv)>>)
                   \o <<USER_CONFIG_DIR>>

\* the loop of _iter_config_files over the search paths from the i-th on
RECURSIVE IterFrom(_, _)
IterFrom(search_paths, i) ==
    IF i > Len(search_paths) THEN <<>>
    ELSE LET base == search_paths[i]
             seen == {search_paths[j] : j \in 1..(i - 1)}
             found == IF base \in seen THEN <<>>
                      ELSE IF IsFileNow(base) /\ Lower(Suffix(base)) = S_json THEN <<base>>
                      ELSE IF IsDirNow(base) THEN GlobJson(base)
                      ELSE <<>>
         IN  found \o IterFrom(search_paths, i + 1)

\* ClinkRegistry._iter_config_files
IterConfigFiles == IterFrom(SearchPaths, 1)

PutClient(map, key, client) ==
    [k \in DOMAIN map \cup {key} |-> IF k = key THEN client ELSE map[k]]

\* what _load leaves and gives: the map, and whether it raised
Loaded(map) == [ok |-> TRUE, err |-> "", fields |-> {}, clients |-> map]
LoadFailed(err, fields, map) == [ok |-> FALSE, err |-> err, fields |-> fields, clients |-> map]

\* the loop of ClinkRegistry._load over the files from the i-th on, and the check
\* after it
RECURSIVE LoadFrom_AllowEmpty(_, _, _)
LoadFrom_AllowEmpty(files, i, map) ==
    IF i > Len(files) THEN Loaded(map)
    ELSE LET data == manifests[files[i]]
             resolved == ResolveConfig(data.config, files[i])
         IN  IF data.kind = "malformed" THEN LoadFailed("InvalidJSON", {}, map)
             ELSE IF data.kind = "empty" THEN LoadFrom_AllowEmpty(files, i + 1, map)
             ELSE IF data.kind = "invalid" THEN LoadFailed("ValidationError", {}, map)
             ELSE IF ~resolved.ok THEN LoadFailed(resolved.err, resolved.fields, map)
             ELSE LoadFrom_AllowEmpty(files, i + 1,
                           PutClient(map, Lower(resolved.client.name), resolved.client))

RECURSIVE LoadFrom_KeepFirst(_, _, _)
LoadFrom_KeepFirst(files, i, map) ==
    IF i > Len(files)
    THEN IF DOMAIN map = {} THEN LoadFailed("NoClients", {}, map) ELSE Loaded(map)
    ELSE LET data == manifests[files[i]]
             resolved == ResolveConfig(data.config, files[i])
         IN  IF data.kind = "malformed" THEN LoadFailed("InvalidJSON", {}, map)
             ELSE IF data.kind = "empty" THEN LoadFrom_KeepFirst(files, i + 1, map)
             ELSE IF data.kind = "invalid" THEN LoadFailed("ValidationError", {}, map)
             ELSE IF ~resolved.ok THEN LoadFailed(resolved.err, resolved.fields, map)
             ELSE IF Lower(resolved.client.name) \in DOMAIN map
             THEN LoadFrom_KeepFirst(files, i + 1, map)
             ELSE LoadFrom_KeepFirst(files, i + 1,
                           PutClient(map, Lower(resolved.client.name), resolved.client))

RECURSIVE LoadFrom(_, _, _)
LoadFrom(files, i, map) ==
    IF i > Len(files)
    THEN IF DOMAIN map = {} THEN LoadFailed("NoClients", {}, map) ELSE Loaded(map)
    ELSE LET data == manifests[files[i]]
             resolved == ResolveConfig(data.config, files[i])
         IN  IF data.kind = "malformed" THEN LoadFailed("InvalidJSON", {}, map)
             ELSE IF data.kind = "empty" THEN LoadFrom(files, i + 1, map)
             ELSE IF data.kind = "invalid" THEN LoadFailed("ValidationError", {}, map)
             ELSE IF ~resolved.ok THEN LoadFailed(resolved.err, resolved.fields, map)
             ELSE LoadFrom(files, i + 1,
                           PutClient(map, Lower(resolved.client.name), resolved.client))

\* ClinkRegistry._load: the map is cleared, then filled file by file
Load == LoadFrom(IterConfigFiles, 1, <<>>)

\* ClinkRegistry.list_clients
ListClients(map) == Sorted({map[k].name : k \in DOMAIN map})

\* ClinkRegistry.get_client
GetClient(map, cli_name) ==
    LET key == Lower(cli_name)
    IN  IF key \notin DOMAIN map
        THEN [ok |-> FALSE, available |-> ListClients(map), client |-> NoResolved]
        ELSE [ok |-> TRUE, available |-> <<>>, client |-> map[key]]

\* the record of a registry operation: `registry` tells whether a registry exists
RegistryCall(op, got, registry) ==
    [op |-> op, ok |-> got.ok, err |-> got.err, fields |-> got.fields, registry |-> registry]
NoRegistryCall == [op |-> "none", ok |-> TRUE, err |-> "", fields |-> {}, registry |-> FALSE]

\* ClinkRegistry(): when _load raises no registry comes to be
Construct ==
    /\ ~regLast.registry
    /\ LET got == Load
       IN  /\ clients' = IF got.ok THEN got.clients ELSE <<>>
           /\ regLast' = RegistryCall("init", got, got.ok)
    /\ UNCHANGED <<sysModules, execCount, pathHash, last, manifests, configEnv, parse, threads>>

\* ClinkRegistry.reload()
Reload ==
    /\ regLast.registry
    /\ LET got == Load
       IN  /\ clients' = got.clients
           /\ regLast' = RegistryCall("reload", got, TRUE)
    /\ UNCHANGED <<sysModules, execCount, pathHash, last, manifests, configEnv, parse, threads>>

\* the manifests written to the files: a built-in CLI, the same CLI under another
\* casing and command, a custom CLI, and a custom CLI without parser
R_gemini == CLIClientConfig(S_gemini, <<"g">>, None, <<>>, None, <<>>)
R_Gemini == CLIClientConfig(<<"G","e","m","i","n","i">>, <<"h"," ","-","y">>, None, <<>>, None, <<>>)
R_custom == CLIClientConfig(<<"m","y">>, <<"x">>, S_builtin \o S_gemini_json, <<>>, P_t, <<>>)
R_noparser == CLIClientConfig(<<"m","y">>, <<"x">>, None, <<>>, P_t, <<>>)

ManifestContents ==
    {Malformed, EmptyData, Invalid}
    \cup {Manifest("config", c) : c \in {R_gemini, R_Gemini, R_custom, R_noparser}}

\* a manifest file is written, replaced or removed
WriteManifest(f, content) ==
    /\ manifests[f] # content
    /\ manifests' = [manifests EXCEPT ![f] = content]
    /\ Cardinality({g \in ManifestFiles : manifests'[g] # Absent}) <= MaxManifests
    /\ UNCHANGED <<sysModules, execCount, pathHash, last, clients, configEnv, regLast, parse, threads>>

-----------------------------------------------------------------------------
(* The response parsers: clink/parsers/cursor.py and clink/parsers/opencode.py *)

\* JSON values as json.loads gives them: None, str, int, bool, dict (a function
\* of its keys) and list (a sequence); t is the type of the value and the field
\* of that type holds it
JNull == [t |-> "null", s |-> <<>>, n |-> 0, b |-> FALSE, o |-> <<>>, l |-> <<>>]
JStr(str) == [JNull EXCEPT !.t = "str", !.s = str]
JNum(int) == [JNull EXCEPT !.t = "num", !.n = int]
JBool(bool) == [JNull EXCEPT !.t = "bool", !.b = bool]
JObj(dict) == [JNull EXCEPT !.t = "obj", !.o = dict]
JList(list) == [JNull EXCEPT !.t = "list", !.l = list]

\* bool(value)
Truthy(j) ==
    CASE j.t = "null" -> FALSE
      [] j.t = "str" -> Len(j.s) > 0
      [] j.t = "num" -> j.n # 0
      [] j.t = "bool" -> j.b
      [] j.t = "obj" -> DOMAIN j.o # {}
      [] j.t = "list" -> Len(j.l) > 0

\* dict.get(key, default) of a value that is a dict
DictGet(d, key, default) == IF key \in DOMAIN d.o THEN d.o[key] ELSE default

\* value == "literal"
PyEq(j, literal) == j.t = "str" /\ j.s = literal

\* a dict with one more key
Put(d, key, value) == [k \in DOMAIN d \cup {key} |-> IF k = key THEN value ELSE d[k]]

\* "\n\n".join(parts)
RECURSIVE Join(_)
Join(parts) ==
    IF parts = <<>> THEN <<>>
    ELSE IF Len(parts) = 1 THEN parts[1]
    ELSE parts[1] \o <<"\n", "\n">> \o Join(Tail(parts))

\* the words the parsers compare with
S_type_assistant == <<"a","s","s","i","s","t","a","n","t">>
S_type_text == <<"t","e","x","t">>
S_type_tool_call == <<"t","o","o","l","_","c","a","l","l">>
S_type_result == <<"r","e","s","u","l","t">>
S_success == <<"s","u","c","c","e","s","s">>
S_completed == <<"c","o","m","p","l","e","t","e","d">>
S_started == <<"s","t","a","r","t","e","d">>
S_type_tool_use == <<"t","o","o","l","_","u","s","e">>
S_type_tool_result == <<"t","o","o","l","_","r","e","s","u","l","t">>
S_type_step_finish == <<"s","t","e","p","_","f","i","n","i","s","h">>
S_type_step_start == <<"s","t","e","p","_","s","t","a","r","t">>

\* a line of stdout: blank, text that does not start with '{', text that starts
\* with '{' and is no JSON, or the JSON text of an object
Line(kind, value) == [kind |-> kind, value |-> value]
BlankLine == Line("blank", JNull)
NoiseLine == Line("noise", JNull)
BrokenLine == Line("broken", JNull)
JsonLine(event) == Line("json", event)

\* [line.strip() for line in stdout.splitlines() if line.strip()]
NonBlankLines(stdout) == SelectSeq(stdout, LAMBDA line : line.kind # "blank")

\* line.startswith("{")
StartsWithBrace(line) == line.kind \in {"broken", "json"}

\* json.loads(line): the object, or JSONDecodeError
JsonLoads(line) ==
    IF line.kind = "json" THEN [ok |-> TRUE, value |-> line.value]
    ELSE [ok |-> FALSE, value |-> JNull]

\* (stderr or "").strip()
StderrText(stderr) == IF stderr = None THEN <<>> ELSE Strip(stderr)

\* what parse gives: a response, the ParserError that carries the stderr text or
\* the generic message, or another exception that escapes
ParsedCLIResponse(content, metadata) ==
    [tag |-> "response", content |-> content, metadata |-> metadata, stderr |-> <<>>]
NoResultError(stderr_text) ==
    [tag |-> "ParserError", content |-> <<>>, metadata |-> <<>>, stderr |-> stderr_text]
Escaped(exception) ==
    [tag |-> exception, content |-> <<>>, metadata |-> <<>>, stderr |-> <<>>]

\* the texts a loop over content blocks collected, or the exception it raised
Texts(texts) == [crash |-> "", texts |-> texts]
Crash(exception) == [crash |-> exception, texts |-> <<>>]

\* CursorNDJSONParser.parse, the loop over the blocks of an assistant message from
\* the i-th on
RECURSIVE CursorBlockTexts(_, _)
CursorBlockTexts(content, i) ==
    IF i > Len(content) THEN Texts(<<>>)
    ELSE LET content_block == content[i]
             text == DictGet(content_block, "text", JStr(<<>>))
             rest == CursorBlockTexts(content, i + 1)
         IN  IF content_block.t # "obj" THEN Crash("AttributeError")
             ELSE IF ~PyEq(DictGet(content_block, "type", JNull), S_type_text) THEN rest
             ELSE IF text.t # "str" THEN Crash("AttributeError")
             ELSE IF rest.crash # "" THEN rest
             ELSE Texts((IF Strip(text.s) # <<>> THEN <<Strip(text.s)>> ELSE <<>>) \o rest.texts)

\* CursorNDJSONParser.parse, the branch of an assistant event
CursorAssistantTexts(event) ==
    LET msg == DictGet(event, "message", JObj(<<>>))
        content == DictGet(msg, "content", JList(<<>>))
    IN  IF msg.t # "obj" THEN Crash("AttributeError")
        ELSE CASE content.t = "list" -> CursorBlockTexts(content.l, 1)
               [] content.t = "str" ->
                    IF Len(content.s) = 0 THEN Texts(<<>>) ELSE Crash("AttributeError")
               [] content.t = "obj" ->
                    IF DOMAIN content.o = {} THEN Texts(<<>>) ELSE Crash("AttributeError")
               [] OTHER -> Crash("TypeError")

\* the locals of parse before the first line
CursorStart ==
    [events |-> <<>>, assistant_messages |-> <<>>, tool_calls |-> <<>>,
     terminal_result |-> JNull, session_id |-> JNull, crash |-> ""]

\* a variant of the loop that keeps the first terminal event
RECURSIVE CursorLoop_FirstTerminal(_, _, _)
CursorLoop_FirstTerminal(lines, i, st) ==
    IF i > Len(lines) \/ st.crash # "" THEN st
    ELSE LET line == lines[i]
             event == JsonLoads(line).value
             event_type == DictGet(event, "type", JNull)
             subtype == DictGet(event, "subtype", JNull)
             seen == [st EXCEPT !.events = Append(@, event),
                                !.session_id = IF ~Truthy(@)
                                               THEN DictGet(event, "session_id", JNull)
                                               ELSE @]
             texts == CursorAssistantTexts(event)
         IN  IF ~StartsWithBrace(line) \/ ~JsonLoads(line).ok
             THEN CursorLoop_FirstTerminal(lines, i + 1, st)
             ELSE IF PyEq(event_type, S_type_assistant)
             THEN IF texts.crash # "" THEN [seen EXCEPT !.crash = texts.crash]
                  ELSE CursorLoop_FirstTerminal(lines, i + 1,
                                  [seen EXCEPT !.assistant_messages = @ \o texts.texts])
             ELSE IF PyEq(event_type, S_type_tool_call)
             THEN CursorLoop_FirstTerminal(lines, i + 1, [seen EXCEPT !.tool_calls = Append(@, event)])
             ELSE IF PyEq(event_type, S_type_result) /\ PyEq(subtype, S_success)
             THEN CursorLoop_FirstTerminal(lines, i + 1, [seen EXCEPT !.terminal_result = IF Truthy(@) THEN @ ELSE event])
             ELSE CursorLoop_FirstTerminal(lines, i + 1, seen)

\* CursorNDJSONParser.parse, the loop over the lines from the i-th on
RECURSIVE CursorLoop(_, _, _)
CursorLoop(lines, i, st) ==
    IF i > Len(lines) \/ st.crash # "" THEN st
    ELSE LET line == lines[i]
             event == JsonLoads(line).value
             event_type == DictGet(event, "type", JNull)
             subtype == DictGet(event, "subtype", JNull)
             seen == [st EXCEPT !.events = Append(@, event),
                                !.session_id = IF ~Truthy(@)
                                               THEN DictGet(event, "session_id", JNull)
                                               ELSE @]
             texts == CursorAssistantTexts(event)
         IN  IF ~StartsWithBrace(line) \/ ~JsonLoads(line).ok
             THEN CursorLoop(lines, i + 1, st)
             ELSE IF PyEq(event_type, S_type_assistant)
             THEN IF texts.crash # "" THEN [seen EXCEPT !.crash = texts.crash]
                  ELSE CursorLoop(lines, i + 1,
                                  [seen EXCEPT !.assistant_messages = @ \o texts.texts])
             ELSE IF PyEq(event_type, S_type_tool_call)
             THEN CursorLoop(lines, i + 1, [seen EXCEPT !.tool_calls = Append(@, event)])
             ELSE IF PyEq(event_type, S_type_result) /\ PyEq(subtype, S_success)
             THEN CursorLoop(lines, i + 1, [seen EXCEPT !.terminal_result = event])
             ELSE CursorLoop(lines, i + 1, seen)

\* a variant of the metadata that counts every tool call, started ones too
CursorMetadata_CountAll(st, stderr_text) ==
    LET terminal_result == st.terminal_result
        m0 == [k \in {"events"} |-> JList(st.events)]
        m1 == IF Truthy(terminal_result)
                 /\ DictGet(terminal_result, "duration_ms", JNull).t # "null"
              THEN Put(m0, "duration_ms", DictGet(terminal_result, "duration_ms", JNull))
              ELSE m0
        m2 == IF Truthy(terminal_result)
                 /\ DictGet(terminal_result, "duration_api_ms", JNull).t # "null"
              THEN Put(m1, "duration_api_ms", DictGet(terminal_result, "duration_api_ms", JNull))
              ELSE m1
        m3 == IF Truthy(terminal_result)
                 /\ Truthy(DictGet(terminal_result, "request_id", JNull))
              THEN Put(m2, "request_id", DictGet(terminal_result, "request_id", JNull))
              ELSE m2
        m4 == IF Truthy(terminal_result)
              THEN Put(m3, "is_error", DictGet(terminal_result, "is_error", JBool(FALSE)))
              ELSE m3
        m5 == IF Truthy(st.session_id) THEN Put(m4, "session_id", st.session_id) ELSE m4
        completed == {i \in 1..Len(st.tool_calls) :
                         PyEq(DictGet(st.tool_calls[i], "subtype", JNull), S_completed)}
        m6 == IF st.tool_calls # <<>>
              THEN Put(Put(m5, "tool_calls", JList(st.tool_calls)),
                       "tool_call_count", JNum(Len(st.tool_calls)))
              ELSE m5
    IN  IF stderr_text # <<>> THEN Put(m6, "stderr", JStr(stderr_text)) ELSE m6

\* CursorNDJSONParser.parse, the metadata of a response
CursorMetadata(st, stderr_text) ==
    LET terminal_result == st.terminal_result
        m0 == [k \in {"events"} |-> JList(st.events)]
        m1 == IF Truthy(terminal_result)
                 /\ DictGet(terminal_result, "duration_ms", JNull).t # "null"
              THEN Put(m0, "duration_ms", DictGet(terminal_result, "duration_ms", JNull))
              ELSE m0
        m2 == IF Truthy(terminal_result)
                 /\ DictGet(terminal_result, "duration_api_ms", JNull).t # "null"
              THEN Put(m1, "duration_api_ms", DictGet(terminal_result, "duration_api_ms", JNull))
              ELSE m1
        m3 == IF Truthy(terminal_result)
                 /\ Truthy(DictGet(terminal_result, "request_id", JNull))
              THEN Put(m2, "request_id", DictGet(terminal_result, "request_id", JNull))
              ELSE m2
        m4 == IF Truthy(terminal_result)
              THEN Put(m3, "is_error", DictGet(terminal_result, "is_error", JBool(FALSE)))
              ELSE m3
        m5 == IF Truthy(st.session_id) THEN Put(m4, "session_id", st.session_id) ELSE m4
        completed == {i \in 1..Len(st.tool_calls) :
                         PyEq(DictGet(st.tool_calls[i], "subtype", JNull), S_completed)}
        m6 == IF st.tool_calls # <<>>
              THEN Put(Put(m5, "tool_calls", JList(st.tool_calls)),
                       "tool_call_count", JNum(Cardinality(completed)))
              ELSE m5
    IN  IF stderr_text # <<>> THEN Put(m6, "stderr", JStr(stderr_text)) ELSE m6

\* a variant that prefers the assistant messages to the text of the terminal event
CursorParse_PreferMessages(stdout, stderr) ==
    LET st == CursorLoop(NonBlankLines(stdout), 1, CursorStart)
        result == DictGet(st.terminal_result, "result", JStr(<<>>))
        preferred == IF Truthy(st.terminal_result) THEN Strip(result.s) ELSE <<>>
        content == IF st.assistant_messages # <<>>
                   THEN Join(st.assistant_messages)
                   ELSE preferred
    IN  IF st.crash # "" THEN Escaped(st.crash)
        ELSE IF Truthy(st.terminal_result) /\ result.t # "str" THEN Escaped("AttributeError")
        ELSE IF content = <<>> THEN NoResultError(StderrText(stderr))
        ELSE ParsedCLIResponse(content, CursorMetadata(st, StderrText(stderr)))

\* CursorNDJSONParser.parse
CursorParse(stdout, stderr) ==
    LET st == CursorLoop(NonBlankLines(stdout), 1, CursorStart)
        result == DictGet(st.terminal_result, "result", JStr(<<>>))
        preferred == IF Truthy(st.terminal_result) THEN Strip(result.s) ELSE <<>>
        content == IF preferred = <<>> /\ st.assistant_messages # <<>>
                   THEN Join(st.assistant_messages)
                   ELSE preferred
    IN  IF st.crash # "" THEN Escaped(st.crash)
        ELSE IF Truthy(st.terminal_result) /\ result.t # "str" THEN Escaped("AttributeError")
        ELSE IF content = <<>> THEN NoResultError(StderrText(stderr))
        ELSE ParsedCLIResponse(content, CursorMetadata(st, StderrText(stderr)))

\* the locals of OpenCodeJSONParser.parse before the first line
OpenCodeStart ==
    [events |-> <<>>, text_parts |-> <<>>, tool_events |-> <<>>,
     step_finish |-> JNull, session_id |-> JNull, crash |-> ""]

\* OpenCodeJSONParser.parse, the branch of a text event
OpenCodeTexts(event) ==
    LET part == DictGet(event, "part", JObj(<<>>))
        text == DictGet(part, "text", JStr(<<>>))
    IN  IF part.t # "obj" THEN Crash("AttributeError")
        ELSE IF text.t # "str" THEN Crash("AttributeError")
        ELSE Texts(IF Strip(text.s) # <<>> THEN <<Strip(text.s)>> ELSE <<>>)

\* a variant of the loop in which the last text part comes first
RECURSIVE OpenCodeLoop_NewestFirst(_, _, _)
OpenCodeLoop_NewestFirst(lines, i, st) ==
    IF i > Len(lines) \/ st.crash # "" THEN st
    ELSE LET line == lines[i]
             event == JsonLoads(line).value
             event_type == DictGet(event, "type", JNull)
             seen == [st EXCEPT !.events = Append(@, event),
                                !.session_id = IF ~Truthy(@)
                                               THEN DictGet(event, "sessionID", JNull)
                                               ELSE @]
             texts == OpenCodeTexts(event)
         IN  IF ~StartsWithBrace(line) \/ ~JsonLoads(line).ok
             THEN OpenCodeLoop_NewestFirst(lines, i + 1, st)
             ELSE IF PyEq(event_type, S_type_text)
             THEN IF texts.crash # "" THEN [seen EXCEPT !.crash = texts.crash]
                  ELSE OpenCodeLoop_NewestFirst(lines, i + 1, [seen EXCEPT !.text_parts = texts.texts \o @])
             ELSE IF PyEq(event_type, S_type_tool_use) \/ PyEq(event_type, S_type_tool_result)
             THEN OpenCodeLoop_NewestFirst(lines, i + 1, [seen EXCEPT !.tool_events = Append(@, event)])
             ELSE IF PyEq(event_type, S_type_step_finish)
             THEN OpenCodeLoop_NewestFirst(lines, i + 1, [seen EXCEPT !.step_finish = event])
             ELSE OpenCodeLoop_NewestFirst(lines, i + 1, seen)

\* OpenCodeJSONParser.parse, the loop over the lines from the i-th on
RECURSIVE OpenCodeLoop(_, _, _)
OpenCodeLoop(lines, i, st) ==
    IF i > Len(lines) \/ st.crash # "" THEN st
    ELSE LET line == lines[i]
             event == JsonLoads(line).value
             event_type == DictGet(event, "type", JNull)
             seen == [st EXCEPT !.events = Append(@, event),
                                !.session_id = IF ~Truthy(@)
                                               THEN DictGet(event, "sessionID", JNull)
                                               ELSE @]
             texts == OpenCodeTexts(event)
         IN  IF ~StartsWithBrace(line) \/ ~JsonLoads(line).ok
             THEN OpenCodeLoop(lines, i + 1, st)
             ELSE IF PyEq(event_type, S_type_text)
             THEN IF texts.crash # "" THEN [seen EXCEPT !.crash = texts.crash]
                  ELSE OpenCodeLoop(lines, i + 1, [seen EXCEPT !.text_parts = @ \o texts.texts])
             ELSE IF PyEq(event_type, S_type_tool_use) \/ PyEq(event_type, S_type_tool_result)
             THEN OpenCodeLoop(lines, i + 1, [seen EXCEPT !.tool_events = Append(@, event)])
             ELSE IF PyEq(event_type, S_type_step_finish)
             THEN OpenCodeLoop(lines, i + 1, [seen EXCEPT !.step_finish = event])
             ELSE OpenCodeLoop(lines, i + 1, seen)

\* OpenCodeJSONParser.parse, the metadata of a response, or the exception that
\* building it raises
OpenCodeMetadata(st, stderr_text) ==
    LET part == DictGet(st.step_finish, "part", JObj(<<>>))
        tokens == DictGet(part, "tokens", JObj(<<>>))
        cache == DictGet(tokens, "cache", JObj(<<>>))
        m0 == [k \in {"events"} |-> JList(st.events)]
        m1 == IF Truthy(st.step_finish) /\ Truthy(tokens)
              THEN Put(Put(Put(Put(m0, "tokens", tokens),
                               "input_tokens", DictGet(tokens, "input", JNum(0))),
                           "output_tokens", DictGet(tokens, "output", JNum(0))),
                       "reasoning_tokens", DictGet(tokens, "reasoning", JNum(0)))
              ELSE m0
        m2 == IF Truthy(st.step_finish) /\ Truthy(tokens) /\ Truthy(cache)
              THEN Put(Put(m1, "cache_read", DictGet(cache, "read", JNum(0))),
                       "cache_write", DictGet(cache, "write", JNum(0)))
              ELSE m1
        m3 == IF Truthy(st.step_finish) /\ DictGet(part, "cost", JNull).t # "null"
              THEN Put(m2, "cost", DictGet(part, "cost", JNull))
              ELSE m2
        m4 == IF Truthy(st.step_finish) /\ Truthy(DictGet(part, "reason", JNull))
              THEN Put(m3, "finish_reason", DictGet(part, "reason", JNull))
              ELSE m3
        m5 == IF Truthy(st.session_id) THEN Put(m4, "session_id", st.session_id) ELSE m4
        results == {i \in 1..Len(st.tool_events) :
                       PyEq(DictGet(st.tool_events[i], "type", JNull), S_type_tool_result)}
        m6 == IF st.tool_events # <<>>
              THEN Put(Put(m5, "tool_events", JList(st.tool_events)),
                       "tool_call_count", JNum(Cardinality(results)))
              ELSE m5
        m7 == IF stderr_text # <<>> THEN Put(m6, "stderr", JStr(stderr_text)) ELSE m6
    IN  IF ~Truthy(st.step_finish) THEN [crash |-> "", metadata |-> m7]
        ELSE IF part.t # "obj" THEN [crash |-> "AttributeError", metadata |-> <<>>]
        ELSE IF Truthy(tokens) /\ tokens.t # "obj"
        THEN [crash |-> "AttributeError", metadata |-> <<>>]
        ELSE IF Truthy(tokens) /\ Truthy(cache) /\ cache.t # "obj"
        THEN [crash |-> "AttributeError", metadata |-> <<>>]
        ELSE [crash |-> "", metadata |-> m7]

\* OpenCodeJSONParser.parse
OpenCodeParse(stdout, stderr) ==
    LET st == OpenCodeLoop(NonBlankLines(stdout), 1, OpenCodeStart)
        content == Join(st.text_parts)
        built == OpenCodeMetadata(st, StderrText(stderr))
    IN  IF st.crash # "" THEN Escaped(st.crash)
        ELSE IF content = <<>> THEN NoResultError(StderrText(stderr))
        ELSE IF built.crash # "" THEN Escaped(built.crash)
        ELSE ParsedCLIResponse(content, built.metadata)

\* the record of a parse: the parser, the texts it was given and what it gave
Parsing(parser, stdout, stderr, res) ==
    [parser |-> parser, stdout |-> stdout, stderr |-> stderr, res |-> res]
NotParsed == Escaped("none")

\* a variant of the call that gives up the output from its first line that is
\* not JSON on
OpenCodeParseCall_StopAtNoise ==
    LET bad == {i \in 1..Len(parse.stdout) : parse.stdout[i].kind \in {"noise", "broken"}}
        kept == IF bad = {} THEN parse.stdout
                ELSE SubSeq(parse.stdout, 1, (CHOOSE i \in bad : \A j \in bad : i <= j) - 1)
    IN  /\ parse' = Parsing("opencode_json", parse.stdout, parse.stderr,
                            OpenCodeParse(kept, parse.stderr))
        /\ UNCHANGED <<sysModules, execCount, pathHash, last, clients, manifests,
                       configEnv, regLast, threads>>

\* BaseParser.parse(stdout, stderr) of the two parsers, on the output at hand
CursorParseCall ==
    /\ parse' = Parsing("cursor_ndjson", parse.stdout, parse.stderr,
                        CursorParse(parse.stdout, parse.stderr))
    /\ UNCHANGED <<sysModules, execCount, pathHash, last, clients, manifests, configEnv,
                   regLast, threads>>

OpenCodeParseCall ==
    /\ parse' = Parsing("opencode_json", parse.stdout, parse.stderr,
                        OpenCodeParse(parse.stdout, parse.stderr))
    /\ UNCHANGED <<sysModules, execCount, pathHash, last, clients, manifests, configEnv,
                   regLast, threads>>

\* no output has been parsed; no thread is loading
NoParse == Parsing("none", <<>>, <<>>, NotParsed)
NoThreads == <<>>

-----------------------------------------------------------------------------
(* _import_module_from_path run by several threads, one statement at a time *)

ThreadIds == 1..MaxThreads

\* a thread inside _import_module_from_path: where it is, the path it was given,
\* the module object it made or took from the cache, whether it took it from
\* the cache, and the module a load that the module's own code issued for the
\* same path took from the cache
Thread(pc, path, module, hit, nested) ==
    [pc |-> pc, path |-> path, module |-> module, hit |-> hit, nested |-> nested]
IdleThread == Thread("idle", NoFile, NoModule, FALSE, NoModule)

\* the threads, and the module objects whose top-level code has run to its end
Loading(of, executed) == [of |-> of, executed |-> executed]
StartThreads == Loading([t \in ThreadIds |-> IdleThread], {})

\* `if module_name in sys.modules: return sys.modules[module_name]`
ImportLookup(t, path) ==
    LET module_name == ModuleName(path)
    IN  /\ threads.of[t].pc = "idle"
        /\ threads' = [threads EXCEPT !.of[t] =
                IF module_name \in DOMAIN sysModules
                THEN Thread("returned", path, sysModules[module_name], TRUE, NoModule)
                ELSE Thread("missed", path, NoModule, FALSE, NoModule)]
        /\ UNCHANGED <<sysModules, execCount, pathHash, last, clients, manifests,
                       configEnv, regLast, parse>>

\* module_from_spec and `sys.modules[module_name] = module`; exec_module begins
ImportInsert(t) ==
    LET th == threads.of[t]
        file == ResolveAny(th.path)
        module == Module(file, execCount[file] + 1)
    IN  /\ th.pc = "missed"
        /\ execCount[file] < MaxExec
        /\ sysModules' = PutModule(sysModules, ModuleName(th.path), module)
        /\ execCount' = [execCount EXCEPT ![file] = @ + 1]
        /\ threads' = [threads EXCEPT !.of[t] = [th EXCEPT !.pc = "executing",
                                                          !.module = module]]
        /\ UNCHANGED <<pathHash, last, clients, manifests, configEnv, regLast, parse>>

\* the code of the module, while it runs, loads the path of the module again:
\* the load finds the key and returns what the cache holds
ReentrantLoad(t) ==
    LET th == threads.of[t]
        module_name == ModuleName(th.path)
    IN  /\ th.pc = "executing" /\ th.nested = NoModule
        /\ module_name \in DOMAIN sysModules
        /\ threads' = [threads EXCEPT !.of[t] = [th EXCEPT !.nested = sysModules[module_name]]]
        /\ UNCHANGED <<sysModules, execCount, pathHash, last, clients, manifests,
                       configEnv, regLast, parse>>

\* exec_module returns: the module is complete, and `return module`
ExecModuleReturns(t) ==
    LET th == threads.of[t]
    IN  /\ th.pc = "executing"
        /\ threads' = [threads EXCEPT !.of[t] = [th EXCEPT !.pc = "returned"],
                                      !.executed = @ \cup {th.module}]
        /\ UNCHANGED <<sysModules, execCount, pathHash, last, clients, manifests,
                       configEnv, regLast, parse>>

\* a variant in which the entry stays in the cache when the code raises
ExecModuleRaises_NoCleanup(t) ==
    LET th == threads.of[t]
    IN  /\ th.pc = "executing"
        /\ threads' = [threads EXCEPT !.of[t] = [th EXCEPT !.pc = "raised"]]
        /\ UNCHANGED <<sysModules, execCount, pathHash, last, clients, manifests,
                       configEnv, regLast, parse>>

\* exec_module raises: `sys.modules.pop(module_name, None)`, and LoaderError
ExecModuleRaises(t) ==
    LET th == threads.of[t]
    IN  /\ th.pc = "executing"
        /\ sysModules' = PopModule(sysModules, ModuleName(th.path))
        /\ threads' = [threads EXCEPT !.of[t] = [th EXCEPT !.pc = "raised"]]
        /\ UNCHANGED <<execCount, pathHash, last, clients, manifests, configEnv,
                       regLast, parse>>

\* the call is over; the thread is free for its next load
LoadReturns(t) ==
    /\ threads.of[t].pc \in {"returned", "raised"}
    /\ threads' = [threads EXCEPT !.of[t] = IdleThread]
    /\ UNCHANGED <<sysModules, execCount, pathHash, last, clients, manifests,
                   configEnv, regLast, parse>>

-----------------------------------------------------------------------------
(* The inputs of the calls *)

\* attribute names asked of a module: P and Q are classes of /d/m.py (Q no parser),
\* f is a function, N is defined nowhere
ClassNames == {<<"P">>, <<"Q">>, <<"f">>, <<"N">>}

PathSpec(path_str, class_name) == path_str \o <<":">> \o class_name

Args(spec, base, reg, dir) == [spec |-> spec, base |-> base, reg |-> reg, dir |-> dir]

\* path specs of the files that can be imported: by absolute path, through the
\* symbolic link, relative to a base directory or to the working directory, from
\* the home directory, and with whitespace around the spec and the class name
ImportArgs ==
    {Args(PathSpec(p, c), BaseParser, "EmptyRegistry", None) :
        p \in {P_dm, P_dl, P_em}, c \in ClassNames}
    \cup {Args(PathSpec(P_m, <<"P">>), BaseParser, "EmptyRegistry", d) : d \in {None, P_e}}
    \cup {Args(PathSpec(P_home_m, <<"R">>), BaseParser, "EmptyRegistry", None),
          Args(PathSpec(P_dm, <<"A">>), BaseCLIAgent, "EmptyRegistry", None),
          Args(PathSpec(P_dm, <<"B">>), BaseParser, "EmptyRegistry", None),
          Args(<<" ">> \o PathSpec(P_dm, <<" ", "P", " ">>), BaseParser, "EmptyRegistry", None)}

\* path specs that fail before the import
BadPathArgs ==
    {Args(PathSpec(p, <<"P">>), BaseParser, "EmptyRegistry", None) :
        p \in {P_dn, P_d, P_dt, <<>>, P_dm \o <<" ">>}}
    \cup {Args(PathSpec(P_dm, c), BaseParser, "EmptyRegistry", None) : c \in {<<>>, <<" ">>}}

\* some builtin and bare specs, under the registries of the tests
NameArgs ==
    {Args(S_builtin \o <<" ","F","o","o">>, BaseParser, "FooRegistry", None),
     Args(S_foo, BaseParser, "ObjectRegistry", None),
     Args(<<"z">>, BaseParser, "FooRegistry", None),
     Args(P_dm, BaseParser, "EmptyRegistry", None),
     Args(<<>>, BaseParser, "EmptyRegistry", None)}

LoadArgs == ImportArgs \cup BadPathArgs \cup NameArgs

\* runner specs given to create_agent_from_spec: absent, builtin (prefixed, bare in
\* another casing), custom agents from files, and specs that cannot load
RunnerSpecs ==
    {None, S_builtin \o S_gemini, <<"C","l","a","u","d","e">>,
     PathSpec(P_dm, <<"A">>), PathSpec(P_dm, <<"P">>), PathSpec(P_dn, <<"A">>),
     <<"i","n","v","a","l","i","d",":","n","o">>, <<"z">>, <<>>}

\* the clients handed to create_agent_from_spec: their runner spec and the
\* directory of the manifest that configured them
Clients ==
    {[runner |-> None, config_base_dir |-> None],
     [runner |-> S_codex, config_base_dir |-> None],
     [runner |-> PathSpec(P_m, <<"A">>), config_base_dir |-> P_d],
     [runner |-> S_builtin \o <<"z">>, config_base_dir |-> P_d]}

AgentArgs ==
    {[client |-> c, runner_spec |-> None, dir |-> None] : c \in Clients}
    \cup {[client |-> [runner |-> S_codex, config_base_dir |-> None], runner_spec |-> r,
           dir |-> None] : r \in RunnerSpecs}
    \cup {[client |-> [runner |-> None, config_base_dir |-> P_e],
           runner_spec |-> PathSpec(P_m, <<"A">>), dir |-> d] : d \in {None, P_d}}

ParserSpecs ==
    {S_builtin \o S_gemini_json, S_claude_json,
     S_builtin \o <<"C","O","D","E","X","_","J","S","O","N","L">>,
     PathSpec(P_dm, <<"P">>), PathSpec(P_em, <<"R">>), PathSpec(P_dm, <<"A">>),
     PathSpec(P_dn, <<"P">>), PathSpec(P_dm, <<"N">>),
     S_builtin \o <<"z">>, <<"z">>, P_dm, <<>>, <<" ">>, None}

\* every letter casing of a name
RECURSIVE Casings(_)
Casings(k) ==
    IF k = <<>> THEN {<<>>}
    ELSE {<<c>> \o v : c \in {LowerChar(Head(k)), UpperChar(Head(k))}, v \in Casings(Tail(k))}

\* the casings of a registry key that are tried
KeyCasings(k) ==
    IF Len(k) <= MaxCasingLen THEN Casings(k)
    ELSE {k, Upper(k), <<UpperChar(Head(k))>> \o Tail(k)}

\* the names tried against a registry: its keys in other casings, an unknown
\* name, the empty name, and names with a path separator
NamesFor(reg) ==
    UNION {KeyCasings(k) : k \in DOMAIN Registry(reg)}
    \cup {<<"z">>, <<>>, <<"a","/","b">>, <<"a","\\","b">>}

\* a name bare and behind the builtin prefix, with and without whitespace around
\* the name and around the spec
SpecsOf(n) ==
    LET padded == <<" ">> \o n \o <<"\t">>
    IN  {n, padded, S_builtin \o n, S_builtin \o padded, <<" ">> \o S_builtin \o n \o <<"\t">>}

\* path specs for the parsing of <path>:<ClassName>: a drive-letter path, more
\* than one colon, an empty path or class name, whitespace around the parts, and
\* specs of the two source files for the hint of a class that is not found
S_drive == <<"C",":","\\","m",".","p","y">>

PathInputs ==
    {Args(s, BaseParser, "EmptyRegistry", None) :
        s \in {PathSpec(S_drive, <<"P">>), PathSpec(<<"a",":","b">>, <<"c">>),
               PathSpec(P_dm, <<"P">>), PathSpec(P_dm, <<" ","P","\t">>),
               <<" ">> \o PathSpec(P_dm, <<"P">>) \o <<" ">>,
               PathSpec(P_dm, <<>>), PathSpec(P_dm, <<" ">>), PathSpec(P_dm \o <<":">>, <<>>),
               PathSpec(<<>>, <<"P">>), <<" ">> \o PathSpec(<<>>, <<"P">>), <<":">>, <<":",":">>,
               PathSpec(P_dn, <<"P">>), PathSpec(P_dn \o <<":">>, <<"P">>)}}
    \cup {Args(PathSpec(p, <<"N">>), b, "EmptyRegistry", None) :
            p \in {P_dm, P_em}, b \in {BaseParser, BaseCLIAgent, object}}

NameInputsOf(reg) ==
    {Args(s, BaseParser, reg, None) : s \in UNION {SpecsOf(n) : n \in NamesFor(reg)}}

NameInputs ==
    NameInputsOf("FooRegistry") \cup NameInputsOf("PARSER_CLASSES") \cup NameInputsOf("EmptyRegistry")

-----------------------------------------------------------------------------
(* The loader in one process; and the factories in one process *)

Init ==
    /\ sysModules = <<>>
    /\ execCount = [f \in SourceFiles |-> 0]
    /\ pathHash \in [SourceFiles -> HashValues]
    /\ last = NoCall
    /\ clients = <<>>
    /\ manifests = NoManifests
    /\ configEnv = None
    /\ regLast = NoRegistryCall
    /\ parse = NoParse
    /\ threads = NoThreads

DoLoadClass == \E a \in LoadArgs : LoadClass(a.spec, a.base, a.reg, a.dir)

DoCreateAgent == \E a \in AgentArgs : CreateAgentFromSpec(a.client, a.runner_spec, a.dir)

DoGetParser == \E s \in ParserSpecs : GetParserFromSpec(s, None)

Next == DoLoadClass

Spec == Init /\ [][Next]_vars

NextFactory == DoCreateAgent \/ DoGetParser

\* the loader given builtin and bare names
DoLoadName == \E a \in NameInputs : LoadClass(a.spec, a.base, a.reg, a.dir)

\* normalize_spec given the same names, and path specs
NormalizeInputs ==
    NameInputs
    \cup {Args(s, BaseParser, "FooRegistry", None) :
            s \in {PathSpec(P_dm, <<"P">>), <<" ">> \o PathSpec(P_dm, <<"P">>) \o <<" ">>}}

DoNormalize == \E a \in NormalizeInputs : Normalize(a.spec, a.reg)

NextNames == DoLoadName \/ DoNormalize

SpecNames == Init /\ [][NextNames]_vars

\* the loader given path specs
DoLoadPath == \E a \in PathInputs : LoadClass(a.spec, a.base, a.reg, a.dir)

NextPaths == DoLoadPath

SpecPaths == Init /\ [][NextPaths]_vars

\* the registry in one process, the manifest files changing under it; the
\* environment variable is unset, names the built-in directory, or names a file
\* of the user's directory
ConfigEnvValues == {None, P_d, F_da, F_ea}

InitRegistry ==
    /\ sysModules = <<>>
    /\ execCount = [f \in SourceFiles |-> 0]
    /\ pathHash = [f \in SourceFiles |-> 0]
    /\ last = NoCall
    /\ clients = <<>>
    /\ manifests = NoManifests
    /\ configEnv \in ConfigEnvValues
    /\ regLast = NoRegistryCall
    /\ parse = NoParse
    /\ threads = NoThreads

DoWriteManifest ==
    \E f \in ManifestFiles, content \in ManifestContents \cup {Absent} : WriteManifest(f, content)

NextRegistry == DoWriteManifest \/ Construct \/ Reload

SpecRegistry == InitRegistry /\ [][NextRegistry]_vars

\* the configurations resolved one at a time: built-in and custom names, a name
\* that is empty, each field given or not, prompts that exist or not
S_Codex == <<"C","o","d","e","x">>
S_my == <<"m","y">>
RawNames == {S_gemini, S_Codex, S_my, <<>>}
RawCommands == {None, <<>>, <<"x"," ","-","y">>}
RawParsers == {None, <<>>, S_builtin \o S_gemini_json}
RawInternalArgs == {<<>>, <<"-z">>}
RawAdditionalArgs == {<<>>, <<"-a">>}
RawPrompts == {None, P_t, P_x}
RawRoles ==
    {<<>>,
     <<CLIRoleConfig("default", None)>>,
     <<CLIRoleConfig("default", P_x)>>,
     <<CLIRoleConfig("r", None)>>,
     <<CLIRoleConfig("r", P_t), CLIRoleConfig("default", None)>>,
     <<CLIRoleConfig("r", P_x)>>}

\* a manifest that gives "internal_args": [] differs from one without the key
\* only in model_fields_set
RawConfigs ==
    LET plain == {[CLIClientConfig(n, c, p, i, d, r) EXCEPT !.additional_args = a] :
                    n \in RawNames, c \in RawCommands, p \in RawParsers,
                    i \in RawInternalArgs, a \in RawAdditionalArgs, d \in RawPrompts,
                    r \in RawRoles}
    IN  plain \cup {[c EXCEPT !.model_fields_set = @ \cup {"internal_args"}] :
                        c \in {x \in plain : x.internal_args = <<>>}}

\* one manifest, /d/a.json, is on disk
InitResolve ==
    /\ sysModules = <<>>
    /\ execCount = [f \in SourceFiles |-> 0]
    /\ pathHash = [f \in SourceFiles |-> 0]
    /\ last = NoCall
    /\ clients = <<>>
    /\ manifests \in {[NoManifests EXCEPT ![F_da] = Manifest("config", c)] : c \in RawConfigs}
    /\ configEnv = None
    /\ regLast = NoRegistryCall
    /\ parse = NoParse
    /\ threads = NoThreads

NextResolve == Construct \/ Reload

SpecResolve == InitResolve /\ [][NextResolve]_vars

\* the events of cursor-agent: assistant messages (one with whitespace around its
\* text and the session id, one with a block that is no text first, one whose
\* content is a string), tool calls, and result/success events (one with every
\* field, one with the result only, one with an empty result, one whose result is
\* null)
T_a == <<" ", "a", " ">>
T_b == <<"b">>
T_r == <<" ", "r", "\n">>
T_q == <<"q">>
TextBlock(text) == JObj([k \in {"type", "text"} |-> IF k = "type" THEN JStr(S_type_text) ELSE text])
CursorAssistant(content) ==
    JObj([k \in {"type", "message"} |->
            IF k = "type" THEN JStr(S_type_assistant)
            ELSE JObj([c \in {"content"} |-> content])])
CursorToolCall(subtype) ==
    JObj([k \in {"type", "subtype"} |->
            IF k = "type" THEN JStr(S_type_tool_call) ELSE JStr(subtype)])
CursorResult(result) ==
    JObj([k \in {"type", "subtype", "result"} |->
            CASE k = "type" -> JStr(S_type_result)
              [] k = "subtype" -> JStr(S_success)
              [] k = "result" -> result])
CursorEvents ==
    {JObj(Put(CursorAssistant(JList(<<TextBlock(JStr(T_a))>>)).o, "session_id", JStr(<<"s">>))),
     CursorAssistant(JList(<<JObj([k \in {"type"} |-> JStr(<<"i">>)]), TextBlock(JStr(T_b))>>)),
     CursorAssistant(JStr(<<"x">>)),
     CursorToolCall(S_started),
     CursorToolCall(S_completed),
     JObj(Put(Put(Put(CursorResult(JStr(T_r)).o, "duration_ms", JNum(5)),
                  "request_id", JStr(T_q)), "is_error", JBool(TRUE))),
     CursorResult(JStr(T_b)),
     CursorResult(JStr(<<>>)),
     CursorResult(JNull)}

\* the events of opencode: text events (one with whitespace and the session id,
\* one plain, one whose text is null), tool events, and step_finish events (one
\* with every field, one with the input tokens only, one with an empty part, one
\* whose tokens are a number)
OpenCodeEvent(type, part) ==
    JObj([k \in {"type", "part"} |-> IF k = "type" THEN JStr(type) ELSE part])
OpenCodeText(text) == OpenCodeEvent(S_type_text, JObj([k \in {"text"} |-> text]))
FullTokens ==
    JObj([k \in {"input", "output", "reasoning", "cache"} |->
            CASE k = "input" -> JNum(1)
              [] k = "output" -> JNum(2)
              [] k = "reasoning" -> JNum(3)
              [] k = "cache" -> JObj([c \in {"read", "write"} |->
                                        IF c = "read" THEN JNum(4) ELSE JNum(5)])])
OpenCodeEvents ==
    {JObj(Put(OpenCodeText(JStr(T_a)).o, "sessionID", JStr(<<"s">>))),
     OpenCodeText(JStr(T_b)),
     OpenCodeText(JNull),
     OpenCodeEvent(S_type_tool_use, JObj(<<>>)),
     OpenCodeEvent(S_type_tool_result, JObj(<<>>)),
     OpenCodeEvent(S_type_step_finish,
                   JObj([k \in {"tokens", "cost", "reason"} |->
                           CASE k = "tokens" -> FullTokens
                             [] k = "cost" -> JNum(6)
                             [] k = "reason" -> JStr(<<"s","t","o","p">>)])),
     OpenCodeEvent(S_type_step_finish,
                   JObj([k \in {"tokens"} |-> JObj([t \in {"input"} |-> JNum(1)])])),
     OpenCodeEvent(S_type_step_finish, JObj(<<>>)),
     OpenCodeEvent(S_type_step_finish, JObj([k \in {"tokens"} |-> JNum(7)]))}

\* the lines of a stdout, and the stdouts of at most MaxLines lines
LinesOf(events) == {BlankLine, NoiseLine, BrokenLine} \cup {JsonLine(e) : e \in events}
Stdouts(lines) == UNION {[1..n -> lines] : n \in 0..MaxLines}

\* stderr: none, empty, blank, and a text with whitespace around it
Stderrs == {None, <<>>, <<"\n">>, <<" ", "e", "\n">>}

\* the output of one CLI invocation is at hand
InitParsers ==
    /\ sysModules = <<>>
    /\ execCount = [f \in SourceFiles |-> 0]
    /\ pathHash = [f \in SourceFiles |-> 0]
    /\ last = NoCall
    /\ clients = <<>>
    /\ manifests = NoManifests
    /\ configEnv = None
    /\ regLast = NoRegistryCall
    /\ \E stdout \in Stdouts(LinesOf(CursorEvents)) \cup Stdouts(LinesOf(OpenCodeEvents)),
          stderr \in Stderrs :
          parse = Parsing("none", stdout, stderr, NotParsed)
    /\ threads = NoThreads

NextParsers == CursorParseCall \/ OpenCodeParseCall

SpecParsers == InitParsers /\ [][NextParsers]_vars

SpecFactory == Init /\ [][NextFactory]_vars

\* the import run by the threads of one process, all loading the same path
ThreadPaths == {P_dm}

InitThreads ==
    /\ sysModules = <<>>
    /\ execCount = [f \in SourceFiles |-> 0]
    /\ pathHash = [f \in SourceFiles |-> 0]
    /\ last = NoCall
    /\ clients = <<>>
    /\ manifests = NoManifests
    /\ configEnv = None
    /\ regLast = NoRegistryCall
    /\ parse = NoParse
    /\ threads = StartThreads

DoImportLookup == \E t \in ThreadIds, path \in ThreadPaths : ImportLookup(t, path)
DoImportInsert == \E t \in ThreadIds : ImportInsert(t)
DoReentrantLoad == \E t \in ThreadIds : ReentrantLoad(t)
DoExecModuleReturns == \E t \in ThreadIds : ExecModuleReturns(t)
DoExecModuleRaises == \E t \in ThreadIds : ExecModuleRaises(t)
DoLoadReturns == \E t \in ThreadIds : LoadReturns(t)

NextThreads ==
    \/ DoImportLookup
    \/ DoImportInsert
    \/ DoReentrantLoad
    \/ DoExecModuleReturns
    \/ DoExecModuleRaises
    \/ DoLoadReturns

SpecThreads == InitThreads /\ [][NextThreads]_vars

-----------------------------------------------------------------------------
(* Properties of the loader (specification Spec) *)

\* the call recorded in `c` was a load_class_from_spec of a path spec that got as
\* far as looking its path up
IsPathLoad(c) == c.op = "load_class_from_spec" /\ c.stat # NoFile

\* the file the path of a path load resolves to
TargetFile(c) == ResolveAny(c.stat)

\* the base_class argument of a recorded call
BaseOf(c) ==
    CASE c.base = "BaseParser" -> BaseParser
      [] c.base = "BaseCLIAgent" -> BaseCLIAgent
      [] OTHER -> object

\* C2: once a path spec has loaded successfully, a later load whose path resolves
\* to the same file takes the cache-hit branch: no code of the file is executed
\* again and a class it returns comes from the same module object. Stated for
\* the load that directly follows the successful one.
C2_SameFileHitsCache ==
    [][(/\ IsPathLoad(last) /\ last.res.tag = "ok"
        /\ IsPathLoad(last') /\ Exists(last'.stat) /\ TargetFile(last') = TargetFile(last))
       => (/\ last'.hit
           /\ execCount' = execCount
           /\ last'.module = last.module)]_vars

\* C3: when the code of a module raises during the import, the entry inserted for
\* the path is removed before LoaderError propagates: the cache holds no entry
\* under the module's name afterwards, and the next load of the same path does
\* not hit the cache but executes the file again.
C3_FailedImportLeavesNoEntry ==
    /\ [](IsPathLoad(last) /\ last.res.kind = "ExecError"
            => ModuleName(last.stat) \notin DOMAIN sysModules)
    /\ [][(/\ IsPathLoad(last) /\ last.res.kind = "ExecError"
           /\ IsPathLoad(last') /\ last'.stat = last.stat)
          => (~last'.hit /\ last'.ran = TargetFile(last'))]_vars

\* a load failed on the module's code twice in a row, each time from an empty cache
C3_Witness ==
    /\ IsPathLoad(last) /\ last.res.kind = "ExecError"
    /\ execCount[TargetFile(last)] = 2
    /\ sysModules = <<>>

\* C4 as stated: every load_class_from_spec that fails with LoaderError leaves
\* the module cache exactly as it was, whatever the kind of failure.
C4_FailedLoadLeavesCache ==
    [][(last'.op = "load_class_from_spec" /\ last'.res.tag = "LoaderError")
       => sysModules' = sysModules]_vars

\* the failures that come after the module was imported
AfterImportKinds == {"ClassNotFound", "NotAClass", "WrongBase"}

\* C4 amended: a load that fails with LoaderError before or at the import leaves
\* the cache as it was; one that fails after the import (class not found, not a
\* class, inheritance violation) changes the cache at most by adding the entry
\* of the module it has just imported.
C4_FailedLoadCacheEffect ==
    [][(last'.op = "load_class_from_spec" /\ last'.res.tag = "LoaderError")
       => IF last'.res.kind \in AfterImportKinds
          THEN \/ sysModules' = sysModules
               \/ /\ ModuleName(last'.stat) \notin DOMAIN sysModules
                  /\ last'.module = Module(TargetFile(last'), execCount'[TargetFile(last')])
                  /\ sysModules' = PutModule(sysModules, ModuleName(last'.stat), last'.module)
          ELSE sysModules' = sysModules]_vars

\* a load failed after it imported the module for the first time, and the module
\* is in the cache
C4_Witness ==
    /\ IsPathLoad(last) /\ last.res.kind \in AfterImportKinds
    /\ last.ran # NoFile
    /\ ModuleName(last.stat) \in DOMAIN sysModules
    /\ sysModules[ModuleName(last.stat)] = last.module

\* C5 as stated: whatever the spec form and the registry, what
\* load_class_from_spec returns is a class that inherits from base_class.
C5_ReturnsSubclass ==
    (last.op = "load_class_from_spec" /\ last.res.tag = "ok")
        => (IsClass(last.res.cls) /\ IsSubclass(last.res.cls, BaseOf(last)))

\* C5 amended: for a path spec the returned value is a class that inherits from
\* base_class; for a builtin or bare name it is the registry's value for that
\* name, returned as it is.
C5_PathReturnsSubclass ==
    (last.op = "load_class_from_spec" /\ last.res.tag = "ok")
        => IF last.stat # NoFile
           THEN IsClass(last.res.cls) /\ IsSubclass(last.res.cls, BaseOf(last))
           ELSE \E k \in DOMAIN Registry(last.reg) : last.res.cls = Registry(last.reg)[k]

\* a path spec returned a class defined in a module that also defines classes
\* that do not inherit from base_class
C5_Witness ==
    /\ IsPathLoad(last) /\ last.res.tag = "ok"
    /\ last.module.file = P_dm
    /\ last.res.cls.file = P_dm

-----------------------------------------------------------------------------
(* Properties of the factories (specification SpecFactory) *)

\* the effective runner spec of a create_agent_from_spec call
EffectiveSpec(c) == IF c.arg # None THEN c.arg ELSE c.client.runner

\* C6: create_agent_from_spec fails open. With an effective runner spec of None
\* it builds BaseCLIAgent without calling the loader; when the loader raises
\* LoaderError it returns a BaseCLIAgent; so it returns an agent for every spec.
C6_AgentFailsOpen ==
    last.op = "create_agent_from_spec"
        => /\ last.res.tag = "agent"
           /\ IsSubclass(last.res.cls, BaseCLIAgent)
           /\ EffectiveSpec(last) = None => (~last.called /\ last.res.cls = BaseCLIAgent)
           /\ EffectiveSpec(last) # None => last.called
           /\ (last.called /\ last.load.tag = "LoaderError") => last.res.cls = BaseCLIAgent
           /\ (last.called /\ last.load.tag = "ok") => last.res.cls = last.load.cls

\* the loader raised LoaderError for the client's own runner spec and the generic
\* agent came back
C6_Witness ==
    /\ last.op = "create_agent_from_spec"
    /\ last.arg = None /\ last.client.runner # None
    /\ last.called /\ last.load.tag = "LoaderError"
    /\ last.res.tag = "agent" /\ last.res.cls = BaseCLIAgent

\* C7: get_parser_from_spec never falls back. An empty spec raises ParserError
\* ("cannot be empty"), every LoaderError is raised again as ParserError with the
\* loader's message, and a parser is returned only when the loader returned its class.
C7_ParserNeverFallsBack ==
    last.op = "get_parser_from_spec"
        => /\ last.res.tag \in {"parser", "ParserError"}
           /\ last.arg \in {None, <<>>}
                => (~last.called /\ last.res.tag = "ParserError" /\ last.res.kind = "CannotBeEmpty")
           /\ (last.called /\ last.load.tag = "LoaderError")
                => last.res = ParserError(last.load)
           /\ last.res.tag = "parser"
                => (last.called /\ last.load.tag = "ok" /\ last.res.cls = last.load.cls)

\* the loader raised LoaderError with a message that lists names, and ParserError
\* carries that message
C7_Witness ==
    /\ last.op = "get_parser_from_spec"
    /\ last.called /\ last.load.tag = "LoaderError" /\ last.load.lists
    /\ last.res.tag = "ParserError" /\ last.res.avail = last.load.avail

-----------------------------------------------------------------------------
(* Properties of the loader given names (specification SpecNames) *)

\* a and b are the same letter up to casing, or the same character
SameLetter(a, b) == LowerChar(a) = LowerChar(b)

\* s is a letter-casing variant of k, possibly with whitespace around it
IsPaddedCasing(s, k) ==
    \E i \in 1..(Len(s) + 1) :
        /\ i + Len(k) - 1 <= Len(s)
        /\ \A j \in 1..Len(k) : SameLetter(s[i + j - 1], k[j])
        /\ \A j \in 1..Len(s) : (j < i \/ j > i + Len(k) - 1) => s[j] \in Whitespace

\* the recorded call was load_class_from_spec('builtin:' + name)
IsBuiltinLoad(c) ==
    c.op = "load_class_from_spec" /\ c.arg # None /\ StartsWith(c.arg, S_builtin)

\* the name after the prefix
BuiltinName(c) == SubSeq(c.arg, Len(S_builtin) + 1, Len(c.arg))

\* the registry keys the name of a builtin load is a variant of
KeysNamed(c) == {k \in DOMAIN Registry(c.reg) : IsPaddedCasing(BuiltinName(c), k)}

\* the error lists the names of the registry, sorted
ListsNames(c) == c.res.lists /\ c.res.avail = Sorted(DOMAIN Registry(c.reg))

\* C8 as stated: 'builtin:' + K returns registry[k] for every casing variant K of
\* a key k, also with whitespace around it; an empty name and a name not in the
\* registry both raise LoaderError listing the available names.
C8_BuiltinAnyCasing ==
    IsBuiltinLoad(last)
        => /\ \A k \in KeysNamed(last) : last.res = Returned(Registry(last.reg)[k])
           /\ KeysNamed(last) = {} => (last.res.tag = "LoaderError" /\ ListsNames(last))

\* C8 amended: 'builtin:' + K returns registry[k] for every casing variant K of a
\* key k, also with whitespace around it; a name not in the registry raises
\* LoaderError listing the available names; an empty name raises the LoaderError
\* "Empty builtin name", which lists no names.
C8_BuiltinAnyCasingEmptyUnlisted ==
    IsBuiltinLoad(last)
        => /\ \A k \in KeysNamed(last) : last.res = Returned(Registry(last.reg)[k])
           /\ (KeysNamed(last) = {} /\ Strip(BuiltinName(last)) # <<>>)
                => (last.res.tag = "LoaderError" /\ last.res.kind = "UnknownBuiltin"
                    /\ ListsNames(last))
           /\ Strip(BuiltinName(last)) = <<>>
                => (last.res.tag = "LoaderError" /\ last.res.kind = "EmptyBuiltinName"
                    /\ ~last.res.lists)

\* a key written in another casing, with whitespace around it, gave the class
C8_Witness ==
    /\ IsBuiltinLoad(last) /\ last.res.tag = "ok"
    /\ BuiltinName(last) = <<" ","F","o","O","\t">>
    /\ last.res.cls = GeminiJSONParser

\* the recorded call was load_class_from_spec of a string without a colon
IsBareLoad(c) ==
    c.op = "load_class_from_spec" /\ c.arg # None /\ ~Contains(c.arg, ":")

\* C9: for every bare name present in the registry, load_class_from_spec(name)
\* succeeds and returns the class load_class_from_spec('builtin:' + name) returns.
C9_BareNameAsBuiltin ==
    (IsBareLoad(last) /\ last.arg \in DOMAIN Registry(last.reg))
        => /\ last.res.tag = "ok"
           /\ last.res = LoadClassFromSpec(S_builtin \o last.arg, BaseOf(last), Registry(last.reg),
                                           last.dir, sysModules, FALSE).res

\* a bare key of the parser registry gave its parser class
C9_Witness ==
    /\ IsBareLoad(last) /\ last.arg = S_codex_jsonl /\ last.reg = "PARSER_CLASSES"
    /\ last.res = Returned(CodexJSONLParser)

\* the spec has a path separator
HasSeparator(s) == Contains(s, "/") \/ Contains(s, "\\")

\* what C10 promises of the recorded call
UnknownOrNeedsClass(c) ==
    /\ c.res.tag = "LoaderError"
    /\ IF HasSeparator(c.arg)
       THEN c.res.kind = "PathNeedsClass"
       ELSE c.res.kind = "UnknownSpec" /\ ListsNames(c)
    /\ c.stat = NoFile /\ c.ran = NoFile /\ ~c.hit /\ c.module = NoModule
    /\ sysModules = <<>>

\* C10 as stated: a spec with no colon that is not a registry key raises
\* 'Unknown spec' with the sorted registry names when it has no path separator
\* and 'Path specs must include class name' when it has one; no file is touched
\* and nothing is imported.
C10_BareUnknown ==
    (IsBareLoad(last) /\ last.arg \notin DOMAIN Registry(last.reg))
        => UnknownOrNeedsClass(last)

\* C10 amended: the same for a non-empty spec whose form without the surrounding
\* whitespace has no colon and is not a registry key.
C10_BareUnknownTrimmed ==
    (IsBareLoad(last) /\ last.arg # <<>> /\ Strip(last.arg) \notin DOMAIN Registry(last.reg))
        => UnknownOrNeedsClass(last)

\* a registry key in another casing, given bare, is an unknown spec
C10_Witness ==
    /\ IsBareLoad(last) /\ last.arg = <<"F","O","O">> /\ last.reg = "FooRegistry"
    /\ last.res.kind = "UnknownSpec"
    /\ last.res.avail = <<S_bar, S_foo>>

-----------------------------------------------------------------------------
(* Properties of the registry (specification SpecRegistry) *)

\* the names asked of get_client
QueryNames == {S_gemini, <<"G","e","m","i","n","i">>, <<"m","y">>, <<"M","Y">>}

\* C1: when ClinkRegistry.reload() fails, the client map after the call equals the
\* map before it: get_client resolves every name as before and list_clients is
\* unchanged.
C1_FailedReloadKeepsClients ==
    [][(regLast'.op = "reload" /\ ~regLast'.ok /\ manifests' = manifests)
       => /\ clients' = clients
          /\ ListClients(clients') = ListClients(clients)
          /\ \A n \in QueryNames : GetClient(clients', n) = GetClient(clients, n)]_vars

-----------------------------------------------------------------------------
(* Properties of the loader given path specs (specification SpecPaths) *)

\* the spec the loader parses: the argument without the whitespace around it
Trimmed(c) == Strip(c.arg)

\* the recorded call was load_class_from_spec of a spec that does not start with
\* 'builtin:' and has a colon
IsColonLoad(c) ==
    /\ c.op = "load_class_from_spec" /\ c.arg # None
    /\ ~StartsWith(Trimmed(c), S_builtin) /\ Contains(Trimmed(c), ":")

\* the position of the last colon of s
LastColon(s) == CHOOSE i \in 1..Len(s) : s[i] = ":" /\ \A j \in (i + 1)..Len(s) : s[j] # ":"

\* what lies before the last colon, and what lies after it without whitespace around
PathPart(s) == SubSeq(s, 1, LastColon(s) - 1)
ClassPart(s) == Strip(SubSeq(s, LastColon(s) + 1, Len(s)))

\* the call raised the error of the given kind before it looked at any file
RaisedUnchecked(c, kind) ==
    /\ c.res.tag = "LoaderError" /\ c.res.kind = kind
    /\ c.stat = NoFile /\ c.ran = NoFile /\ ~c.hit

\* C11: a spec that does not start with 'builtin:' and has a colon is split at its
\* last colon: the path that is looked up is all that lies before that colon (a
\* drive letter's colon stays in it) and the class taken from the module is the
\* name after it; an empty class name (after trimming) or an empty path raises
\* LoaderError before any filesystem check.
C11_SplitAtLastColon ==
    IsColonLoad(last)
        => /\ ClassPart(Trimmed(last)) = <<>> => RaisedUnchecked(last, "MissingClassName")
           /\ (ClassPart(Trimmed(last)) # <<>> /\ PathPart(Trimmed(last)) = <<>>)
                => RaisedUnchecked(last, "MissingPath")
           /\ (ClassPart(Trimmed(last)) # <<>> /\ PathPart(Trimmed(last)) # <<>>)
                => /\ last.stat = SpecPath(PathPart(Trimmed(last)), last.dir)
                   /\ last.res.tag = "ok"
                        => last.res.cls = GetAttr(last.module, ClassPart(Trimmed(last)))
                   /\ last.res.kind = "ClassNotFound"
                        => ~HasAttr(last.module, ClassPart(Trimmed(last)))

\* the path with the drive letter was looked up whole
C11_Witness ==
    /\ IsColonLoad(last) /\ last.arg = PathSpec(S_drive, <<"P">>)
    /\ last.stat = JoinPath(Cwd, S_drive)
    /\ last.res.kind = "FileNotFound"

\* the names bound in a module to classes that inherit from base_class, base_class
\* itself left out
SatisfyingNames(m, base_class) ==
    {ModuleVars(m)[i][1] : i \in {j \in 1..Len(ModuleVars(m)) :
        /\ ModuleVars(m)[j][2].isClass
        /\ base_class.name \in ModuleVars(m)[j][2].mro
        /\ ModuleVars(m)[j][2] # base_class}}

\* C12: when the class named in a path spec is not an attribute of the loaded
\* module, the LoaderError's hint lists exactly the names of the module that are
\* classes satisfying base_class, base_class itself excluded, each once; the
\* hint is omitted exactly when there is no such class.
C12_HintListsSatisfyingClasses ==
    (IsPathLoad(last) /\ last.module # NoModule
        /\ ~HasAttr(last.module, ClassPart(Trimmed(last))))
        => /\ last.res.tag = "LoaderError" /\ last.res.kind = "ClassNotFound"
           /\ {last.res.avail[i] : i \in 1..Len(last.res.avail)}
                = SatisfyingNames(last.module, BaseOf(last))
           /\ Len(last.res.avail) = Cardinality(SatisfyingNames(last.module, BaseOf(last)))
           /\ last.res.lists <=> SatisfyingNames(last.module, BaseOf(last)) # {}

\* the class was not found in a module that imports base_class under another
\* name: the hint lists the parser of the module and not the base class
C12_Witness ==
    /\ IsPathLoad(last) /\ last.res.kind = "ClassNotFound"
    /\ last.module.file = P_dm /\ last.base = "BaseParser"
    /\ last.res.avail = <<<<"P">>>>

-----------------------------------------------------------------------------
(* Properties of normalize_spec (specification SpecNames) *)

\* s has no colon and no path separator
IsBareName(s) == ~Contains(s, ":") /\ ~HasSeparator(s)

\* s is a registry key up to letter casing
IsRecognized(s, reg) ==
    \E k \in DOMAIN Registry(reg) :
        Len(s) = Len(k) /\ \A j \in 1..Len(k) : SameLetter(s[j], k[j])

\* C13 as stated: normalize_spec(s, registry) returns 'builtin:' + s exactly when s
\* is a bare name recognized in the registry, and s untouched in every other case.
C13_NormalizeOrUntouched ==
    last.op = "normalize_spec"
        => IF IsBareName(last.arg) /\ IsRecognized(last.arg, last.reg)
           THEN last.spec = S_builtin \o last.arg
           ELSE last.spec = last.arg

\* C13 amended: normalize_spec(s, registry) returns the empty s as it is; otherwise,
\* with t being s without the whitespace around it, it returns 'builtin:' + t
\* exactly when t is a bare name recognized in the registry, and t in every
\* other case.
C13_NormalizeTrimmed ==
    last.op = "normalize_spec"
        => IF last.arg = <<>> THEN last.spec = <<>>
           ELSE IF IsBareName(Trimmed(last)) /\ IsRecognized(Trimmed(last), last.reg)
           THEN last.spec = S_builtin \o Trimmed(last)
           ELSE last.spec = Trimmed(last)

\* a key in another casing with whitespace around it came back prefixed and trimmed
C13_Witness ==
    /\ last.op = "normalize_spec" /\ last.reg = "FooRegistry"
    /\ last.arg = <<" ","F","o","O","\t">>
    /\ last.spec = S_builtin \o <<"F","o","O">>

-----------------------------------------------------------------------------
(* Properties of loading the registry (specification SpecRegistry) *)

\* the manifest files the scan discovers, in the current state
Discovered ==
    LET files == IterConfigFiles
    IN  {files[i] : i \in 1..Len(files)}

\* a discovered manifest that gives a client, one that is skipped, one that raises
IsValidManifest(f) ==
    manifests[f].kind = "config" /\ ResolveConfig(manifests[f].config, f).ok
IsSkippedManifest(f) == manifests[f].kind = "empty"
IsBadManifest(f) == ~IsValidManifest(f) /\ ~IsSkippedManifest(f)

\* the name a manifest gives its client, and the name without its casing
ClientName(f) == Strip(manifests[f].config.name)
ClientKey(f) == Lower(ClientName(f))

\* list is sorted and has exactly one entry for every distinct case-insensitive
\* name of the manifests of valid
ListsSortedNames(list, valid) ==
    /\ Len(list) = Cardinality({ClientKey(f) : f \in valid})
    /\ \A f \in valid : \E i \in 1..Len(list) : Lower(list[i]) = ClientKey(f)
    /\ \A i \in 1..Len(list) : \E f \in valid : list[i] = ClientName(f)
    /\ \A i, j \in 1..Len(list) : i < j => StrLess(list[i], list[j])

\* C14 as stated: constructing the registry fails when the scan yields no client;
\* with at least one valid manifest it succeeds and list_clients() returns the
\* sorted client names, one entry per distinct case-insensitive name.
C14_ConstructWithOneValid ==
    [][(manifests' = manifests /\ Construct)
       => LET valid == {f \in Discovered : IsValidManifest(f)}
          IN  IF valid = {} THEN ~regLast'.ok
              ELSE regLast'.ok /\ ListsSortedNames(ListClients(clients'), valid)]_vars

\* C14 amended: constructing the registry fails when a discovered manifest is
\* malformed, invalid or cannot be resolved, whatever the other manifests are;
\* otherwise it fails with the "no clients" error when the scan yields no client,
\* and with at least one valid manifest it succeeds and list_clients() returns
\* the sorted client names, one entry per distinct case-insensitive name.
C14_ConstructWithAllValid ==
    [][(manifests' = manifests /\ Construct)
       => LET valid == {f \in Discovered : IsValidManifest(f)}
              bad == {f \in Discovered : IsBadManifest(f)}
          IN  IF bad # {} THEN ~regLast'.ok /\ regLast'.err # "NoClients"
              ELSE IF valid = {} THEN ~regLast'.ok /\ regLast'.err = "NoClients"
              ELSE regLast'.ok /\ ListsSortedNames(ListClients(clients'), valid)]_vars

\* a registry was constructed from two manifests discovered in the order my, gemini
C14_Witness ==
    /\ regLast.op = "init" /\ regLast.ok
    /\ Discovered = {F_da, F_db}
    /\ IsValidManifest(F_da) /\ ClientName(F_da) = <<"m","y">>
    /\ IsValidManifest(F_db) /\ ClientName(F_db) = S_gemini
    /\ ListClients(clients) = <<S_gemini, <<"m","y">>>>

\* the manifests a source gives: itself when it is a .json file, its .json files
\* in sorted order when it is a directory
ManifestsOf(source) ==
    IF source \in ManifestFiles
    THEN IF manifests[source] # Absent THEN <<source>> ELSE <<>>
    ELSE Sorted({f \in ManifestFiles : manifests[f] # Absent /\ Parent(f) = source})

\* the order of discovery: the built-in directory, the path of the environment
\* when there is one, the directory of the user; a source already seen is left out
DiscoveryOrder ==
    LET env == IF Falsy(configEnv) THEN CONFIG_DIR ELSE configEnv
    IN  ManifestsOf(CONFIG_DIR)
        \o (IF env # CONFIG_DIR THEN ManifestsOf(env) ELSE <<>>)
        \o (IF USER_CONFIG_DIR \notin {CONFIG_DIR, env} THEN ManifestsOf(USER_CONFIG_DIR) ELSE <<>>)

\* the manifest discovered last among those that give a client named key
LastDiscovered(key) ==
    LET order == DiscoveryOrder
        at == {i \in 1..Len(order) : IsValidManifest(order[i]) /\ ClientKey(order[i]) = key}
    IN  order[CHOOSE i \in at : \A j \in at : j <= i]

\* C15: after a load that succeeds, the registry holds for every name, up to case,
\* exactly one client, and it is wholly the one resolved from the manifest of that
\* name discovered last, in the order built-in directory, environment path, user
\* directory, the files of a directory sorted.
C15_LastDiscoveredWins ==
    [][(manifests' = manifests /\ regLast'.ok /\ regLast'.op \in {"init", "reload"})
       => LET valid == {f \in Discovered : IsValidManifest(f)}
          IN  /\ DOMAIN clients' = {ClientKey(f) : f \in valid}
              /\ \A f \in valid :
                    LET g == LastDiscovered(ClientKey(f))
                    IN  clients'[ClientKey(f)] = ResolveConfig(manifests[g].config, g).client]_vars

\* the environment names /d/a.json, which is also of the built-in directory next to
\* /d/b.json: both give gemini under different casings, and /d/a.json is the client
C15_Witness ==
    /\ regLast.ok /\ regLast.registry /\ configEnv = F_da
    /\ manifests[F_da].config = R_gemini /\ manifests[F_db].config = R_Gemini
    /\ DOMAIN clients = {S_gemini}
    /\ clients[S_gemini].name = S_gemini /\ clients[S_gemini].executable = <<<<"g">>>>
    /\ clients[S_gemini].config_source_path = F_da

-----------------------------------------------------------------------------
(* Properties of resolving one configuration (specification SpecResolve, where the
   manifest /d/a.json stays as it is) *)

\* the configuration of the manifest, and whether the registry was loaded from it
Raw == manifests[F_da].config
WasLoaded == regLast.op \in {"init", "reload"}

\* the name of the configuration is absent from the internal-defaults table
IsCustomCli(raw) == Lower(Strip(raw.name)) \notin DOMAIN INTERNAL_DEFAULTS

\* the fields among command and parser the configuration does not give
MissingOf(raw) == {k \in {"command", "parser"} : Falsy(raw[k])}

\* C16: resolving a manifest that has a name, absent from the internal-defaults
\* table, fails whenever command or parser is missing, with one error that names
\* exactly the missing fields, whatever else is wrong with the manifest (its roles,
\* its prompts): the check comes before every other step of the resolution.
C16_CustomRequiresCommandAndParser ==
    (WasLoaded /\ ~Falsy(Raw.name) /\ IsCustomCli(Raw) /\ MissingOf(Raw) # {})
        => /\ ~regLast.ok /\ regLast.err = "CustomMissingFields"
           /\ regLast.fields = MissingOf(Raw)
           /\ clients = <<>>

\* a custom manifest without command and parser, whose role has no prompt file
\* either, was refused for the two fields
C16_Witness ==
    /\ WasLoaded /\ Raw.name = S_my /\ Raw.command = None /\ Raw.parser = None
    /\ Raw.roles = <<CLIRoleConfig("r", P_x)>>
    /\ regLast.err = "CustomMissingFields" /\ regLast.fields = {"command", "parser"}

\* the internal defaults of the configuration's name, and the client stored for it
DefaultsOf(raw) == INTERNAL_DEFAULTS[Lower(Strip(raw.name))]
StoredFor(raw) == clients[Lower(Strip(raw.name))]

\* C17: a manifest for a name present in the internal-defaults table that omits
\* command is not refused for the missing command, and when it resolves its
\* executable is the one of the internal defaults.
C17_CommandOptionalForBuiltin ==
    (WasLoaded /\ ~IsCustomCli(Raw) /\ Falsy(Raw.command))
        => /\ regLast.err # "MissingCommand"
           /\ regLast.ok => StoredFor(Raw).executable = DefaultsOf(Raw).executable

\* C18: the internal_args of a resolved client are the manifest's when the CLI is
\* custom or the manifest gives the key internal_args, whatever list it gives, and
\* the internal-default args only when the CLI is built-in and the manifest gives
\* none; its config_args are exactly the manifest's additional_args.
C18_ExplicitInternalArgsWin ==
    (WasLoaded /\ regLast.ok)
        => /\ StoredFor(Raw).internal_args =
                 IF IsCustomCli(Raw) \/ "internal_args" \in Raw.model_fields_set
                 THEN Raw.internal_args
                 ELSE DefaultsOf(Raw).additional_args
           /\ StoredFor(Raw).config_args = Raw.additional_args

\* the parser spec the internal defaults give the configuration's name, None when
\* the name is custom
DefaultParserOf(raw) == IF IsCustomCli(raw) THEN None ELSE DefaultsOf(raw).parser

\* C19: every client stored in the registry has a non-empty parser spec; the one
\* resolved from a manifest has the manifest's parser when it gives one, else the
\* internal default's; when there is neither, the load fails and no client of that
\* manifest is stored.
C19_ParserNeverEmpty ==
    /\ \A k \in DOMAIN clients : ~Falsy(clients[k].parser)
    /\ (WasLoaded /\ regLast.ok)
          => StoredFor(Raw).parser =
                IF ~Falsy(Raw.parser) THEN Raw.parser ELSE DefaultParserOf(Raw)
    /\ (WasLoaded /\ Falsy(Raw.parser) /\ Falsy(DefaultParserOf(Raw)))
          => /\ ~regLast.ok
             /\ \A k \in DOMAIN clients : clients[k].config_source_path # F_da

\* a built-in manifest without parser was stored with the parser of the defaults
C19_Witness ==
    /\ WasLoaded /\ regLast.ok
    /\ Raw.name = S_gemini /\ Raw.parser = None
    /\ StoredFor(Raw).parser = S_gemini_json

\* the default role prompt of the configuration: the manifest's, else the one of
\* the internal defaults, None when there is neither
DefaultPromptOf(raw) ==
    IF ~Falsy(raw.default_role_prompt) THEN raw.default_role_prompt
    ELSE IF IsCustomCli(raw) THEN None
    ELSE DefaultsOf(raw).default_role_prompt

\* the prompts of the roles the configuration ends with: the one of each declared
\* role, else the default role prompt, and the default role prompt for the role
\* 'default' when none is declared
DeclaresDefault(raw) == \E i \in 1..Len(raw.roles) : raw.roles[i].name = "default"
PromptSources(raw) ==
    {IF ~Falsy(raw.roles[i].prompt_path) THEN raw.roles[i].prompt_path
     ELSE DefaultPromptOf(raw) : i \in 1..Len(raw.roles)}
    \cup (IF DeclaresDefault(raw) THEN {} ELSE {DefaultPromptOf(raw)})

\* C20: every client stored in the registry has a role 'default', and every one of
\* its roles has a prompt path that exists; the role 'default' of a manifest that
\* declares none has the default role prompt; when a role ends with no prompt
\* source, or with a prompt file that is missing, the load fails.
C20_DefaultRoleAndPrompts ==
    /\ \A k \in DOMAIN clients :
          /\ "default" \in DOMAIN clients[k].roles
          /\ \A r \in DOMAIN clients[k].roles :
                /\ clients[k].roles[r].name = r
                /\ ~Falsy(clients[k].roles[r].prompt_path)
                /\ Exists(clients[k].roles[r].prompt_path)
    /\ (WasLoaded /\ regLast.ok /\ ~DeclaresDefault(Raw))
          => StoredFor(Raw).roles["default"].prompt_path
                = ResolvePath(DefaultPromptOf(Raw), Parent(F_da))
    /\ (WasLoaded /\ \E src \in PromptSources(Raw) :
                        Falsy(src) \/ ~Exists(ResolvePath(src, Parent(F_da))))
          => /\ ~regLast.ok
             /\ clients = <<>>

\* a custom manifest without roles was stored with the role 'default' of its
\* default role prompt
C20_Witness ==
    /\ WasLoaded /\ regLast.ok
    /\ Raw.name = S_my /\ Raw.roles = <<>> /\ Raw.default_role_prompt = P_t
    /\ DOMAIN StoredFor(Raw).roles = {"default"}
    /\ StoredFor(Raw).roles["default"].prompt_path = P_dt

-----------------------------------------------------------------------------
(* Properties of the scan of the manifests (specification SpecRegistry) *)

\* the manifests one load reads, in order: those the scan yields, up to the first
\* one that raises
VisitedFiles ==
    LET files == IterConfigFiles
        bad == {i \in 1..Len(files) : IsBadManifest(files[i])}
    IN  IF bad = {} THEN files
        ELSE SubSeq(files, 1, CHOOSE i \in bad : \A j \in bad : i <= j)

\* C21: during one load of the registry every manifest file is read and resolved
\* at most once, also when the sources overlap.
C21_EachManifestVisitedOnce ==
    [][(manifests' = manifests /\ (Construct \/ Reload))
       => \A i, j \in 1..Len(VisitedFiles) : i # j => VisitedFiles[i] # VisitedFiles[j]]_vars

-----------------------------------------------------------------------------
(* Properties of the response parsers (specification SpecParsers) *)

\* the events of the stdout at hand, in the order of its lines
DecodedEvents ==
    LET decoded == SelectSeq(parse.stdout, LAMBDA line : line.kind = "json")
    IN  [i \in 1..Len(decoded) |-> decoded[i].value]

\* the terminal events of the two dialects
IsCursorTerminal(e) ==
    PyEq(DictGet(e, "type", JNull), S_type_result)
    /\ PyEq(DictGet(e, "subtype", JNull), S_success)
IsOpenCodeTerminal(e) == PyEq(DictGet(e, "type", JNull), S_type_step_finish)

\* the stdout ends in a terminal event of cursor-agent, and the result of it
EndsInCursorTerminal ==
    DecodedEvents # <<>> /\ IsCursorTerminal(DecodedEvents[Len(DecodedEvents)])
EndResult == DictGet(DecodedEvents[Len(DecodedEvents)], "result", JNull)

\* C22 as stated: for a stdout that ends in a result/success event whose result is
\* a non-empty text, the Cursor parser returns that text verbatim as the content.
C22_TerminalResultVerbatim ==
    (parse.parser = "cursor_ndjson" /\ EndsInCursorTerminal
     /\ EndResult.t = "str" /\ EndResult.s # <<>>)
        => parse.res.tag = "response" /\ parse.res.content = EndResult.s

\* C22 amended: for a stdout that ends in a result/success event whose result,
\* without the whitespace around it, is a non-empty text, the Cursor parser never
\* raises ParserError, and the response it returns has that text without the
\* whitespace around it as its content, whatever assistant texts came earlier.
C22_TerminalResultTrimmed ==
    (parse.parser = "cursor_ndjson" /\ EndsInCursorTerminal
     /\ EndResult.t = "str" /\ Strip(EndResult.s) # <<>>)
        => /\ parse.res.tag # "ParserError"
           /\ parse.res.tag = "response" => parse.res.content = Strip(EndResult.s)

\* an assistant text came first, and the content is the result of the terminal
\* event without its whitespace
C22_Witness ==
    /\ parse.parser = "cursor_ndjson" /\ Len(parse.stdout) = 2
    /\ PyEq(DictGet(parse.stdout[1].value, "type", JNull), S_type_assistant)
    /\ EndsInCursorTerminal /\ EndResult = JStr(T_r)
    /\ parse.res.tag = "response" /\ parse.res.content = <<"r">>

\* the text of a decoded value without the whitespace around it
TextOf(j) == IF j.t = "str" THEN Strip(j.s) ELSE <<>>

\* the text fragments of one event of cursor-agent and of one event of opencode:
\* the texts of the text blocks of an assistant message, the text of a text part
CursorFragments(e) ==
    LET content == DictGet(DictGet(e, "message", JObj(<<>>)), "content", JList(<<>>))
    IN  IF PyEq(DictGet(e, "type", JNull), S_type_assistant) /\ content.t = "list"
        THEN [i \in 1..Len(content.l) |->
                 IF PyEq(DictGet(content.l[i], "type", JNull), S_type_text)
                 THEN TextOf(DictGet(content.l[i], "text", JNull))
                 ELSE <<>>]
        ELSE <<>>
OpenCodeFragments(e) ==
    IF PyEq(DictGet(e, "type", JNull), S_type_text)
    THEN <<TextOf(DictGet(DictGet(e, "part", JObj(<<>>)), "text", JNull))>>
    ELSE <<>>

RECURSIVE Flatten(_)
Flatten(seqs) == IF seqs = <<>> THEN <<>> ELSE Head(seqs) \o Flatten(Tail(seqs))

\* the non-empty text fragments of the stdout at hand, in the order of its events
Fragments ==
    LET of(e) == IF parse.parser = "cursor_ndjson" THEN CursorFragments(e)
                 ELSE OpenCodeFragments(e)
        all == Flatten([i \in 1..Len(DecodedEvents) |-> of(DecodedEvents[i])])
    IN  SelectSeq(all, LAMBDA text : text # <<>>)

\* no event of the stdout at hand supplies an aggregated text: always so for
\* opencode, and for cursor-agent when there is no result/success event
NoTerminalText ==
    \/ parse.parser = "opencode_json"
    \/ /\ parse.parser = "cursor_ndjson"
       /\ \A i \in 1..Len(DecodedEvents) : ~IsCursorTerminal(DecodedEvents[i])

\* C23: when no terminal event supplies an aggregated text, the content of the
\* response is the text fragments of the text-bearing events (each without the
\* whitespace around it), joined by a blank line, in the order of the events in
\* stdout; tool events and other events contribute nothing.
C23_ContentIsJoinedFragments ==
    (parse.res.tag = "response" /\ NoTerminalText)
        => parse.res.content = Join(Fragments)

\* opencode gave a text, used a tool, and gave a second text
C23_Witness ==
    /\ parse.parser = "opencode_json" /\ Len(DecodedEvents) = 3
    /\ PyEq(DictGet(DecodedEvents[2], "type", JNull), S_type_tool_use)
    /\ parse.res.tag = "response"
    /\ parse.res.content = <<"a", "\n", "\n", "b">>

\* the terminal events of the stdout at hand, and the last of them
TerminalIndexes ==
    {i \in 1..Len(DecodedEvents) :
        IF parse.parser = "cursor_ndjson" THEN IsCursorTerminal(DecodedEvents[i])
        ELSE IsOpenCodeTerminal(DecodedEvents[i])}
HasTerminal == TerminalIndexes # {}
LastTerminal ==
    DecodedEvents[CHOOSE i \in TerminalIndexes : \A j \in TerminalIndexes : j <= i]

\* the aggregated text that the stdout at hand supplies
TerminalText ==
    IF parse.parser = "cursor_ndjson" /\ HasTerminal
    THEN TextOf(DictGet(LastTerminal, "result", JNull))
    ELSE <<>>

\* what the parser at hand gives for a stdout
ParseOf(stdout) ==
    IF parse.parser = "cursor_ndjson" THEN CursorParse(stdout, parse.stderr)
    ELSE OpenCodeParse(stdout, parse.stderr)

\* the stdout at hand without the lines that are not JSON or do not decode
ValidLines == SelectSeq(parse.stdout, LAMBDA line : line.kind \in {"blank", "json"})

\* the lines that are not JSON do not change the result
SkippedLinesChangeNothing ==
    parse.parser # "none" => parse.res = ParseOf(ValidLines)

\* C24 as stated: lines that are not JSON or do not decode do not change the
\* result; a ParserError carries the stderr text when stderr is not empty, and is
\* the generic one when stderr is empty.
C24_ErrorCarriesNonEmptyStderr ==
    /\ SkippedLinesChangeNothing
    /\ parse.res.tag = "ParserError" =>
          IF parse.stderr # None /\ parse.stderr # <<>>
          THEN parse.res.stderr # <<>> /\ parse.res.stderr = Strip(parse.stderr)
          ELSE parse.res.stderr = <<>>

\* C24 amended: lines that are not JSON or do not decode do not change the
\* result; with no text fragment and no aggregated text there is no response; a
\* ParserError carries the stderr text without the whitespace around it when that
\* is not empty, and is the generic one when stderr is absent, empty or whitespace.
C24_ErrorCarriesTrimmedStderr ==
    /\ SkippedLinesChangeNothing
    /\ (parse.parser # "none" /\ Fragments = <<>> /\ TerminalText = <<>>)
          => parse.res.tag # "response"
    /\ parse.res.tag = "ParserError" =>
          /\ Fragments = <<>> /\ TerminalText = <<>>
          /\ parse.res.stderr = StderrText(parse.stderr)

\* a line of noise and a line that does not decode around a text; and an output
\* without content whose error carries the stderr text
C24_Witness ==
    /\ parse.parser = "opencode_json"
    /\ Len(parse.stdout) = 3 /\ parse.stdout[1].kind = "noise"
    /\ parse.stdout[3].kind = "broken" /\ parse.stdout[2].kind = "json"
    /\ parse.res.tag = "response" /\ parse.res.content = <<"b">>
C24_WitnessError ==
    /\ parse.parser = "cursor_ndjson" /\ parse.stdout = <<BrokenLine>>
    /\ parse.stderr = <<" ", "e", "\n">>
    /\ parse.res.tag = "ParserError" /\ parse.res.stderr = <<"e">>

\* the value at a path of keys in a decoded object, null where a key is missing
RECURSIVE AtPath(_, _)
AtPath(j, path) ==
    IF path = <<>> THEN j ELSE AtPath(DictGet(j, Head(path), JNull), Tail(path))

\* the derived fields of the metadata of the parser at hand, each with the place
\* of the terminal event it is derived from
DerivedFrom ==
    IF parse.parser = "cursor_ndjson"
    THEN [duration_ms |-> <<"duration_ms">>, duration_api_ms |-> <<"duration_api_ms">>,
          request_id |-> <<"request_id">>, is_error |-> <<"is_error">>]
    ELSE [input_tokens |-> <<"part", "tokens", "input">>,
          output_tokens |-> <<"part", "tokens", "output">>,
          reasoning_tokens |-> <<"part", "tokens", "reasoning">>,
          cache_read |-> <<"part", "tokens", "cache", "read">>,
          cache_write |-> <<"part", "tokens", "cache", "write">>,
          cost |-> <<"part", "cost">>, finish_reason |-> <<"part", "reason">>]

\* C25: a derived field is in the metadata of a response only when the last
\* terminal event reported it, and then with the reported value; a field that the
\* terminal event does not have is never filled with a default, and without a
\* terminal event no derived field is there.
C25_DerivedFieldsOnlyAsReported ==
    parse.res.tag = "response" =>
        \A key \in DOMAIN DerivedFrom \cap DOMAIN parse.res.metadata :
            /\ HasTerminal
            /\ AtPath(LastTerminal, DerivedFrom[key]) # JNull
            /\ parse.res.metadata[key] = AtPath(LastTerminal, DerivedFrom[key])

\* the tool events of the stdout at hand, those of them that report a completed
\* call, and the key under which the parser at hand keeps the tool events
IsToolEvent(e) ==
    IF parse.parser = "cursor_ndjson"
    THEN PyEq(DictGet(e, "type", JNull), S_type_tool_call)
    ELSE PyEq(DictGet(e, "type", JNull), S_type_tool_use)
         \/ PyEq(DictGet(e, "type", JNull), S_type_tool_result)
IsCompletedToolEvent(e) ==
    IF parse.parser = "cursor_ndjson"
    THEN PyEq(DictGet(e, "subtype", JNull), S_completed)
    ELSE PyEq(DictGet(e, "type", JNull), S_type_tool_result)
ToolEvents == SelectSeq(DecodedEvents, IsToolEvent)
ToolKey == IF parse.parser = "cursor_ndjson" THEN "tool_calls" ELSE "tool_events"

\* C26: the metadata of a response holds every decoded event in the order of
\* stdout; with at least one tool event it holds all tool events in order and
\* tool_call_count, the number of the tool events of the completed/result kind;
\* with no tool event it holds neither of the two keys.
C26_EventsAndToolCalls ==
    parse.res.tag = "response" =>
        LET metadata == parse.res.metadata
        IN  /\ metadata["events"] = JList(DecodedEvents)
            /\ IF ToolEvents # <<>>
               THEN /\ {ToolKey, "tool_call_count"} \subseteq DOMAIN metadata
                    /\ metadata[ToolKey] = JList(ToolEvents)
                    /\ metadata["tool_call_count"]
                          = JNum(Len(SelectSeq(ToolEvents, IsCompletedToolEvent)))
               ELSE {"tool_calls", "tool_events", "tool_call_count"} \cap DOMAIN metadata = {}

\* cursor-agent started a tool call and completed it: two tool events, one counted
C26_Witness ==
    /\ parse.parser = "cursor_ndjson" /\ parse.res.tag = "response"
    /\ Len(ToolEvents) = 2 /\ Len(DecodedEvents) = 3
    /\ PyEq(DictGet(ToolEvents[1], "subtype", JNull), S_started)
    /\ PyEq(DictGet(ToolEvents[2], "subtype", JNull), S_completed)
    /\ parse.res.metadata["tool_call_count"] = JNum(1)

\* the stdout at hand without the lines of its terminal events, the last one kept
LastTerminalOnly ==
    LET json == {i \in 1..Len(parse.stdout) : parse.stdout[i].kind = "json"}
        IsTerminalLine(i) ==
            IF parse.parser = "cursor_ndjson" THEN IsCursorTerminal(parse.stdout[i].value)
            ELSE IsOpenCodeTerminal(parse.stdout[i].value)
        terminal == {i \in json : IsTerminalLine(i)}
        earlier == {i \in terminal : \E j \in terminal : i < j}
        RECURSIVE Keep(_)
        Keep(i) == IF i > Len(parse.stdout) THEN <<>>
                   ELSE (IF i \in earlier THEN <<>> ELSE <<parse.stdout[i]>>) \o Keep(i + 1)
    IN  Keep(1)

\* the derived fields of a metadata
DerivedFields(metadata) ==
    LET keys == (DOMAIN DerivedFrom \cup {"tokens"}) \cap DOMAIN metadata
    IN  [key \in keys |-> metadata[key]]

\* C27: with several terminal events in one stdout the last one in the order of
\* the stream is the captured one: the content is its aggregated text when it has
\* one and the joined fragments otherwise, and the content and the derived
\* metadata are those of the same stdout without the earlier terminal events.
C27_LastTerminalWins ==
    (parse.res.tag = "response" /\ Cardinality(TerminalIndexes) >= 2) =>
        /\ parse.res.content = IF TerminalText # <<>> THEN TerminalText ELSE Join(Fragments)
        /\ ParseOf(LastTerminalOnly).tag = "response"
        /\ ParseOf(LastTerminalOnly).content = parse.res.content
        /\ DerivedFields(ParseOf(LastTerminalOnly).metadata)
              = DerivedFields(parse.res.metadata)

\* a terminal event with a duration and a request id, then a bare one: the content
\* is the text of the second, and the duration and the request id are not there
C27_Witness ==
    /\ parse.parser = "cursor_ndjson" /\ Len(DecodedEvents) = 2
    /\ TerminalIndexes = {1, 2}
    /\ DictGet(DecodedEvents[1], "result", JNull) = JStr(T_r)
    /\ "duration_ms" \in DOMAIN DecodedEvents[1].o
    /\ DictGet(DecodedEvents[2], "result", JNull) = JStr(T_b)
    /\ parse.res.tag = "response" /\ parse.res.content = T_b
    /\ {"duration_ms", "request_id"} \cap DOMAIN parse.res.metadata = {}

\* C29: a parse of either parser has exactly two outcomes, a response whose
\* content is not empty or ParserError; no other exception leaves parse, whatever
\* the shapes of the fields of the decoded events.
C29_ResponseOrParserError ==
    parse.parser # "none" =>
        \/ parse.res.tag = "response" /\ parse.res.content # <<>>
        \/ parse.res.tag = "ParserError"

-----------------------------------------------------------------------------
(* Properties of the checks of a path (specification Spec) *)

\* the first of the three checks that a path fails, "" when it passes them all
FirstFailingCheck(path) ==
    IF FileKind(ResolveAny(path)) = "none" THEN "FileNotFound"
    ELSE IF FileKind(ResolveAny(path)) # "file" THEN "NotAFile"
    ELSE IF Lower(Suffix(path)) # <<".","p","y">> THEN "NotPyFile"
    ELSE ""

\* C28: a load runs code and changes the module cache only for a path spec whose
\* resolved path passed the three checks (it exists, it is a regular file, its
\* extension is .py); a path spec whose path fails a check raises LoaderError with
\* the message of the first check that fails, runs nothing and leaves the cache.
C28_ChecksBeforeImport ==
    [][(last' # last /\ last'.op = "load_class_from_spec") =>
          /\ (last'.ran # NoFile \/ sysModules' # sysModules \/ execCount' # execCount)
                => IsPathLoad(last') /\ FirstFailingCheck(last'.stat) = ""
          /\ (IsPathLoad(last') /\ FirstFailingCheck(last'.stat) # "")
                => /\ last'.res = LoaderError(FirstFailingCheck(last'.stat))
                   /\ last'.ran = NoFile /\ ~last'.hit
                   /\ sysModules' = sysModules /\ execCount' = execCount]_vars

\* a directory, which has no .py extension either, was rejected as not a file,
\* with a module of an earlier load in the cache
C28_Witness ==
    /\ IsPathLoad(last) /\ last.stat = P_d
    /\ last.res = LoaderError("NotAFile")
    /\ sysModules # <<>>

-----------------------------------------------------------------------------
(* Properties of interleaved loads (specification SpecThreads) *)

\* the top-level code of a module object has not run to its end
Incomplete(module) == module \notin threads.executed

\* thread t takes a module from the cache in this step, by its own lookup or by
\* the lookup of a load that the code of the module it is executing issued
TakesFromCache(t) ==
    \/ threads.of[t].pc = "idle" /\ threads'.of[t].pc = "returned"
    \/ threads.of[t].nested = NoModule /\ threads'.of[t].nested # NoModule
Taken(t) ==
    IF threads'.of[t].nested # NoModule THEN threads'.of[t].nested ELSE threads'.of[t].module

\* thread t begins to execute the code of a file in this step
BeginsToExecute(t) == threads.of[t].pc = "missed" /\ threads'.of[t].pc = "executing"

C30_WitnessTwice ==
    /\ threads.of[1].pc = "executing" /\ threads.of[2].pc = "executing"
    /\ threads.of[1].path = threads.of[2].path
    /\ execCount[ResolveAny(threads.of[1].path)] = 2

=============================================================================
